---------------------------- MODULE Spec2Model ----------------------------
(***************************************************************************)
(* A model of the calculation engine of HBCalcv0_94.py (the Voltex highbay *)
(* lighting calculator): room cavity index, utilisation-factor             *)
(* interpolation, fixture count and the search for fixture arrays.         *)
(*                                                                         *)
(* Numbers.  Python floats are modelled as exact rationals: a number is a  *)
(* record [n |-> P, d |-> Q] standing for P/Q, where P and Q are integers  *)
(* written in base EpsInv = 10^9 with signed digits (a sequence of         *)
(* coefficients, lowest first, <<>> for 0).  The base is 1/1e-9, so that   *)
(* the 1e-9 of the weighting formula is the exact number 1/EpsInv and no   *)
(* intermediate value leaves TLC's integers.  Floating-point rounding is   *)
(* not modelled.  float('inf') is the number 1/0.                          *)
(***************************************************************************)
EXTENDS Integers, Sequences, FiniteSets

VARIABLES
    pc,         \* position: "start" (arguments drawn), "done" (call returned)
    fn,         \* the function the arguments are for
    metadata,   \* global metadata (fixture metadata loaded from the CSV file)
    uf_table,   \* global uf_table (the utilisation-factor DataFrame)
    args,       \* the arguments of the call
    ret,        \* what the call returned (or the error it raised)
    gui         \* the window: the labels, the entries, the table, the canvases

vars == <<pc, fn, metadata, uf_table, args, ret, gui>>

---------------------------------------------------------------------------
(* Exact arithmetic                                                        *)

\* 1 / 1e-9: the constant of the weighting formula, and the base of the digits
EpsInv == 1000000000

Abs(i) == IF i < 0 THEN -i ELSE i

MaxOf(a, b) == IF a >= b THEN a ELSE b

MinOf(a, b) == IF a <= b THEN a ELSE b

RECURSIVE GCD(_, _)
GCD(a, b) == IF b = 0 THEN Abs(a) ELSE GCD(b, a % Abs(b))

RECURSIVE PTrim(_)
PTrim(p) ==
    IF Len(p) = 0 THEN <<>>
    ELSE IF p[Len(p)] = 0 THEN PTrim(SubSeq(p, 1, Len(p) - 1))
    ELSE p

PCoef(p, i) == IF i <= Len(p) THEN p[i] ELSE 0

PAdd(p, q) == PTrim([i \in 1..MaxOf(Len(p), Len(q)) |-> PCoef(p, i) + PCoef(q, i)])

PNeg(p) == [i \in 1..Len(p) |-> -p[i]]

RECURSIVE Conv(_, _, _, _)
Conv(p, q, k, i) ==
    IF i > Len(p) THEN 0
    ELSE (IF (k + 1 - i) \in 1..Len(q) THEN p[i] * q[k + 1 - i] ELSE 0)
         + Conv(p, q, k, i + 1)

PMul(p, q) ==
    IF Len(p) = 0 \/ Len(q) = 0 THEN <<>>
    ELSE PTrim([k \in 1..(Len(p) + Len(q) - 1) |-> Conv(p, q, k, 1)])

\* The sign of the integer p stands for.  With every digit below the base in
\* absolute value the leading digit decides; a digit that is not has no sign
\* here (the CHOOSE has no value), so that a wrong answer is never given.
PSign(p) ==
    IF Len(p) = 0 THEN 0
    ELSE IF \A i \in 1..Len(p) : Abs(p[i]) < EpsInv
         THEN (IF p[Len(p)] > 0 THEN 1 ELSE -1)
         ELSE CHOOSE s \in {} : TRUE

RECURSIVE PContent(_, _)
PContent(p, g) == IF Len(p) = 0 THEN g ELSE PContent(Tail(p), GCD(g, Head(p)))

PDivInt(p, g) == [i \in 1..Len(p) |-> p[i] \div g]

\* P/Q in lowest terms of its digits, the denominator positive
RECURSIVE Norm(_, _)
Norm(p, q) ==
    IF Len(q) = 0 THEN [n |-> IF Len(p) = 0 THEN <<>> ELSE <<PSign(p)>>, d |-> <<>>]
    ELSE IF Len(p) = 0 THEN [n |-> <<>>, d |-> <<1>>]
    ELSE IF p[1] = 0 /\ q[1] = 0 THEN Norm(Tail(p), Tail(q))
    ELSE LET g == PContent(p, PContent(q, 0))
             s == PSign(q)
         IN  [n |-> PDivInt(p, s * g), d |-> PDivInt(q, s * g)]

PInt(i) == IF i = 0 THEN <<>> ELSE <<i>>

\* the number a/b of two integers, b # 0
Q(a, b) == Norm(PInt(a), PInt(b))

\* the number of an integer
I(a) == Q(a, 1)

\* float('inf')
Inf == [n |-> <<1>>, d |-> <<>>]

IsInf(x) == Len(x.d) = 0

\* the greatest common divisor of the digits of p and of q, 1 where there is
\* none: dividing by it first keeps the digits of a product small
Common(p, q) ==
    LET g == GCD(PContent(p, 0), PContent(q, 0))
    IN  IF g = 0 THEN 1 ELSE g

Add(x, y) ==
    LET g == Common(x.d, y.d)
    IN  Norm(PAdd(PMul(x.n, PDivInt(y.d, g)), PMul(y.n, PDivInt(x.d, g))),
             PMul(x.d, PDivInt(y.d, g)))

Sub(x, y) ==
    LET g == Common(x.d, y.d)
    IN  Norm(PAdd(PMul(x.n, PDivInt(y.d, g)), PNeg(PMul(y.n, PDivInt(x.d, g)))),
             PMul(x.d, PDivInt(y.d, g)))

Mul(x, y) ==
    LET g == Common(x.n, y.d)
        h == Common(y.n, x.d)
    IN  Norm(PMul(PDivInt(x.n, g), PDivInt(y.n, h)),
             PMul(PDivInt(x.d, h), PDivInt(y.d, g)))

\* x / y, y # 0
Div(x, y) ==
    LET g == Common(x.n, y.n)
        h == Common(x.d, y.d)
        p == PMul(PDivInt(x.n, g), PDivInt(y.d, h))
        q == PMul(PDivInt(x.d, h), PDivInt(y.n, g))
    IN  IF PSign(y.n) < 0 THEN Norm(PNeg(p), PNeg(q)) ELSE Norm(p, q)

\* the sign of x - y, for finite x and y
Cmp(x, y) ==
    LET g == Common(x.d, y.d)
    IN  PSign(PAdd(PMul(x.n, PDivInt(y.d, g)), PNeg(PMul(y.n, PDivInt(x.d, g)))))

Le(x, y) ==
    IF IsInf(y) THEN TRUE
    ELSE IF IsInf(x) THEN FALSE
    ELSE Cmp(x, y) <= 0

Lt(x, y) == ~Le(y, x)

Ge(x, y) == Le(y, x)

Gt(x, y) == ~Le(x, y)

Eq(x, y) == Le(x, y) /\ Le(y, x)

AbsQ(x) == IF PSign(x.n) < 0 THEN [n |-> PNeg(x.n), d |-> x.d] ELSE x

\* math.ceil taken for math.floor
Ceil_Floor(x) ==
    LET a == PCoef(x.n, 1)
        b == PCoef(x.d, 1)
    IN  a \div b

\* the largest absolute value of a ceiling looked for among the integers
MaxCeil == 40

\* math.ceil of a finite number: computed from the two parts where they are
\* single digits, and otherwise the integer n with n - 1 < x <= n
CeilOf(x) ==
    IF Len(x.n) <= 1 /\ Len(x.d) = 1
    THEN LET a == PCoef(x.n, 1)
             b == PCoef(x.d, 1)
         IN  -((-a) \div b)
    ELSE CHOOSE n \in (-MaxCeil)..MaxCeil : Le(x, I(n)) /\ Lt(I(n - 1), x)

\* math.ceil(x), x computed once
Ceil(x) == CHOOSE n \in {CeilOf(v) : v \in {x}} : TRUE

---------------------------------------------------------------------------
(* Global constants                                                        *)

\* SHR_FACTOR = 1.50
SHR_FACTOR == Q(3, 2)

\* MIN_SPACING = 3.0 (metres)
MIN_SPACING == Q(3, 1)

\* Python's None, and a value that is not None, as sequences of length 0 and 1
None == <<>>

Some(v) == <<v>>

\* the metadata extract_metadata builds from a file's SHRNOM line
MetadataOf(shrnom) ==
    [SHRNOM |-> shrnom, SHRNOM_Modified |-> Mul(shrnom, SHR_FACTOR)]

\* a table with no row and no column, where no table matters
NoTable == [columns |-> <<>>, rows |-> <<>>]

\* The text of an entry as float() reads it: a number, "nan", "inf", any
\* other text, or nothing.
RawNum(v) == [kind |-> "num", v |-> v]

RawNaN == [kind |-> "nan", v |-> I(0)]

RawInf == [kind |-> "inf", v |-> I(0)]

RawText == [kind |-> "text", v |-> I(0)]

RawEmpty == [kind |-> "empty", v |-> I(0)]

\* the entries as the window is built: empty but for the four defaults
Entries0 ==
    [room_length |-> RawEmpty, room_width |-> RawEmpty, room_height |-> RawEmpty,
     working_plane_height |-> RawEmpty, suspension_distance |-> RawEmpty,
     ceiling_reflectance |-> RawNum(I(50)), walls_reflectance |-> RawNum(I(30)),
     floor_reflectance |-> RawNum(I(10)), E |-> RawEmpty,
     MF |-> RawNum(Q(8, 10))]

\* the window as it is built: empty labels (None), no path, the entries, an
\* empty results table (result_table is None or the calculation it shows) and
\* no layout drawn (canvases is the sequence of the arrays drawn)
Gui0 ==
    [fixture_name |-> None, luminous_flux |-> None, wattage |-> None,
     shr_nom |-> None, csv_file_path |-> None, entries |-> Entries0,
     result_table |-> None, canvases |-> <<>>]

---------------------------------------------------------------------------
(* Array search                                                            *)

calculate_aspect_ratio(room_length, room_width) == Div(room_length, room_width)

calculate_spacing(room_dim, num_fixtures) ==
    IF num_fixtures <= 1 THEN room_dim
    ELSE Div(room_dim, I(num_fixtures))

calculate_shr(spacing, mounting_height) ==
    IF Le(mounting_height, I(0)) THEN Inf
    ELSE Div(spacing, mounting_height)

\* the orientation with a square room taken for a wide one
Orient_StrictlyLonger(rows, cols, aspect_ratio) ==
    IF Gt(aspect_ratio, I(1))
    THEN <<MaxOf(rows, cols), MinOf(rows, cols)>>
    ELSE <<MinOf(rows, cols), MaxOf(rows, cols)>>

\* the orientation of a (rows, cols) pair by the room's shape
Orient(rows, cols, aspect_ratio) ==
    IF Ge(aspect_ratio, I(1))
    THEN <<MaxOf(rows, cols), MinOf(rows, cols)>>
    ELSE <<MinOf(rows, cols), MaxOf(rows, cols)>>

\* shr_valid with the width direction forgotten
ShrValid_LengthOnly(shr_length, shr_width, shr_nom_value) ==
    Le(shr_length, shr_nom_value)

\* shr_valid
ShrValid(shr_length, shr_width, shr_nom_value) ==
    Le(shr_length, shr_nom_value) /\ Le(shr_width, shr_nom_value)

\* spacing_valid without the single-row and single-column cases
SpacingValid_NoSingleCase(along_length, across_width, spacing_length, spacing_width) ==
    Ge(spacing_length, MIN_SPACING) /\ Ge(spacing_width, MIN_SPACING)

\* spacing_valid
SpacingValid(along_length, across_width, spacing_length, spacing_width) ==
    IF along_length = 1
    THEN (IF across_width > 1 THEN Ge(spacing_width, MIN_SPACING) ELSE TRUE)
    ELSE IF across_width = 1
    THEN (IF along_length > 1 THEN Ge(spacing_length, MIN_SPACING) ELSE TRUE)
    ELSE Ge(spacing_length, MIN_SPACING) /\ Ge(spacing_width, MIN_SPACING)

\* the dictionary the loop body builds for one (rows, cols) pair
Arrangement(rows, cols, aspect_ratio, room_length, room_width, mounting_height) ==
    LET o == Orient(rows, cols, aspect_ratio)
        along_length == o[1]
        across_width == o[2]
        spacing_length == calculate_spacing(room_length, along_length)
        spacing_width == calculate_spacing(room_width, across_width)
    IN  [array |-> o,
         spacing_length |-> spacing_length,
         spacing_width |-> spacing_width,
         shr_length |-> calculate_shr(spacing_length, mounting_height),
         shr_width |-> calculate_shr(spacing_width, mounting_height),
         fixtures |-> along_length * across_width,
         parity |-> IF across_width % 2 = 0 THEN "even" ELSE "odd"]

\* the sort key with the difference signed instead of absolute
SortKey_Signed(a, num_fixtures) == <<num_fixtures - a.fixtures, a.fixtures>>

\* a sort key that puts, of two arrays of equal total, the squarer one first
SortKey_SquarestFirst(a, num_fixtures) ==
    <<Abs(a.fixtures - num_fixtures),
      a.fixtures * (a.fixtures + 1) - MinOf(a.array[1], a.array[2])>>

\* the sort key of the deduplication loop
SortKey(a, num_fixtures) == <<Abs(a.fixtures - num_fixtures), a.fixtures>>

KeyLess(k1, k2) == k1[1] < k2[1] \/ (k1[1] = k2[1] /\ k1[2] < k2[2])

\* x put into the sorted t behind every element whose key is not greater
InsertSorted(t, x, num_fixtures) ==
    LET k == Cardinality({i \in 1..Len(t) :
                 ~KeyLess(SortKey(x, num_fixtures), SortKey(t[i], num_fixtures))})
    IN  SubSeq(t, 1, k) \o <<x>> \o SubSeq(t, k + 1, Len(t))

\* sorted(valid_arrays, key = ...): a stable sort
RECURSIVE Sorted(_, _)
Sorted(s, num_fixtures) ==
    IF Len(s) = 0 THEN <<>>
    ELSE InsertSorted(Sorted(SubSeq(s, 1, Len(s) - 1), num_fixtures),
                      s[Len(s)], num_fixtures)

\* the loop without the test of the keys seen
Unique_KeepAll(s, seen) == s

\* the loop over the sorted arrays that keeps the first of each 'array' key
RECURSIVE Unique(_, _)
Unique(s, seen) ==
    IF Len(s) = 0 THEN <<>>
    ELSE IF Head(s).array \in seen THEN Unique(Tail(s), seen)
    ELSE <<Head(s)>> \o Unique(Tail(s), seen \cup {Head(s).array})

\* next((a for a in unique_arrays if a['parity'] == parity), None)
FirstOfParity(unique_arrays, parity) ==
    LET hits == SelectSeq(unique_arrays, LAMBDA a : a.parity = parity)
    IN  IF Len(hits) = 0 THEN None ELSE Some(hits[1])

\* max_dim one short
MaxDim_PlusTwo(num_fixtures) == num_fixtures + 2

\* max_dim: the largest number of rows or columns tried
MaxDim(num_fixtures) == num_fixtures + 3

\* The limit comes from the global metadata; the parameter shr_nom is not read.
find_valid_arrays(num_fixtures, aspect_ratio, room_length, room_width, mounting_height, shr_nom) ==
    LET shr_nom_value == metadata.SHRNOM_Modified
        max_dim == MaxDim(num_fixtures)
        all == [i \in 1..(max_dim * max_dim) |->
                   Arrangement(((i - 1) \div max_dim) + 1, ((i - 1) % max_dim) + 1,
                               aspect_ratio, room_length, room_width,
                               mounting_height)]
        valid_arrays ==
            SelectSeq(all, LAMBDA a :
                /\ ~(a.fixtures < num_fixtures)
                /\ ShrValid(a.shr_length, a.shr_width, shr_nom_value)
                /\ SpacingValid(a.array[1], a.array[2],
                                a.spacing_length, a.spacing_width))
        unique_arrays == Unique(Sorted(valid_arrays, num_fixtures), {})
    IN  [valid_arrays |-> valid_arrays,
         unique_arrays |-> unique_arrays,
         even_array |-> FirstOfParity(unique_arrays, "even"),
         odd_array |-> FirstOfParity(unique_arrays, "odd")]

---------------------------------------------------------------------------
(* The array search applied to bounded inputs                              *)

\* the largest required fixture count tried
MaxFixtures == 7

RoomLengths == {I(5), I(9), I(20), I(30)}

RoomWidths == {I(2), I(5), I(10), I(20)}

MountingHeights == {Q(32, 10), I(2), I(0)}

ShrNoms == {Q(12, 10), I(1)}

InitArrays ==
    /\ pc = "start"
    /\ fn = "find_valid_arrays"
    /\ uf_table = NoTable
    /\ ret = None
    /\ gui = Gui0
    /\ \E shrnom \in ShrNoms : metadata = MetadataOf(shrnom)
    /\ \E N \in 0..MaxFixtures, l \in RoomLengths, w \in RoomWidths,
          h \in MountingHeights :
          args = [num_fixtures |-> N,
                  aspect_ratio |-> calculate_aspect_ratio(l, w),
                  room_length |-> l,
                  room_width |-> w,
                  mounting_height |-> h,
                  shr_nom |-> metadata.SHRNOM_Modified]

FindValidArrays ==
    /\ pc = "start"
    /\ fn = "find_valid_arrays"
    /\ ret' = find_valid_arrays(args.num_fixtures, args.aspect_ratio,
                                args.room_length, args.room_width,
                                args.mounting_height, args.shr_nom)
    /\ pc' = "done"
    /\ UNCHANGED <<fn, metadata, uf_table, args, gui>>

NextArrays == FindValidArrays

SpecArrays == InitArrays /\ [][NextArrays]_vars

---------------------------------------------------------------------------
(* The array search applied to rooms in which arrays of equal total qualify *)

TieRoomSides == {I(6), I(12)}

TieMountingHeights == {I(4), Q(32, 10)}

InitArraysTie ==
    /\ pc = "start"
    /\ fn = "find_valid_arrays"
    /\ uf_table = NoTable
    /\ ret = None
    /\ gui = Gui0
    /\ \E shrnom \in ShrNoms : metadata = MetadataOf(shrnom)
    /\ \E N \in 0..MaxFixtures, l \in TieRoomSides, w \in TieRoomSides,
          h \in TieMountingHeights :
          args = [num_fixtures |-> N,
                  aspect_ratio |-> calculate_aspect_ratio(l, w),
                  room_length |-> l,
                  room_width |-> w,
                  mounting_height |-> h,
                  shr_nom |-> metadata.SHRNOM_Modified]

SpecArraysTie == InitArraysTie /\ [][NextArrays]_vars

---------------------------------------------------------------------------
(* What a call that can raise hands back: the value it returned, or the    *)
(* message of the ValueError it raised                                     *)

Return(v) == [ok |-> TRUE, value |-> v, error |-> ""]

Raise(msg) == [ok |-> FALSE, value |-> I(0), error |-> msg]

---------------------------------------------------------------------------
(* Room cavity index and fixture count                                     *)

\* the cavity index with the mounting height only checked for being negative
calculate_room_cavity_index_Strict(room_length, room_width, room_height, working_plane_height, suspension_distance) ==
    LET h == Sub(Sub(room_height, working_plane_height), suspension_distance)
    IN  IF Lt(h, I(0))
        THEN Raise("Invalid inputs: Working plane height must be greater than suspension distance.")
        ELSE Return(Div(Mul(room_length, room_width),
                        Mul(h, Add(room_length, room_width))))

calculate_room_cavity_index(room_length, room_width, room_height, working_plane_height, suspension_distance) ==
    LET h == Sub(Sub(room_height, working_plane_height), suspension_distance)
    IN  IF Le(h, I(0))
        THEN Raise("Invalid inputs: Working plane height must be greater than suspension distance.")
        ELSE Return(Div(Mul(room_length, room_width),
                        Mul(h, Add(room_length, room_width))))

\* the fixture count with the maintenance factor left out of the formula
calculate_number_of_fixtures_NoMF(E, room_length, room_width, luminous_flux, Uf, MF) ==
    IF Le(luminous_flux, I(0)) \/ Le(Uf, I(0)) \/ Le(MF, I(0))
    THEN Raise("Invalid Luminous Flux value. Please check the CSV file.")
    ELSE [ok |-> TRUE,
          value |-> Ceil(Div(Mul(Mul(E, room_length), room_width),
                             Mul(luminous_flux, Uf))),
          error |-> ""]

\* the fixture count with the maintenance factor multiplying instead of dividing
calculate_number_of_fixtures_MFTimes(E, room_length, room_width, luminous_flux, Uf, MF) ==
    IF Le(luminous_flux, I(0)) \/ Le(Uf, I(0)) \/ Le(MF, I(0))
    THEN Raise("Invalid Luminous Flux value. Please check the CSV file.")
    ELSE [ok |-> TRUE,
          value |-> Ceil(Div(Mul(Mul(Mul(E, room_length), room_width), MF),
                             Mul(luminous_flux, Uf))),
          error |-> ""]

calculate_number_of_fixtures(E, room_length, room_width, luminous_flux, Uf, MF) ==
    IF Le(luminous_flux, I(0)) \/ Le(Uf, I(0)) \/ Le(MF, I(0))
    THEN Raise("Invalid Luminous Flux value. Please check the CSV file.")
    ELSE [ok |-> TRUE,
          value |-> Ceil(Div(Mul(Mul(E, room_length), room_width),
                             Mul(Mul(luminous_flux, Uf), MF))),
          error |-> ""]

---------------------------------------------------------------------------
(* The two formulas applied to bounded inputs                              *)

RoomHeights == {I(4), I(3), I(1)}

WorkingPlaneHeights == {Q(8, 10), I(1), I(3)}

SuspensionDistances == {I(0), Q(1, 2), I(2)}

InitRci ==
    /\ pc = "start"
    /\ fn = "calculate_room_cavity_index"
    /\ metadata = MetadataOf(Q(12, 10))
    /\ uf_table = NoTable
    /\ ret = None
    /\ gui = Gui0
    /\ \E l \in RoomLengths, w \in RoomWidths, H \in RoomHeights,
          p \in WorkingPlaneHeights, s \in SuspensionDistances :
          args = [room_length |-> l, room_width |-> w, room_height |-> H,
                  working_plane_height |-> p, suspension_distance |-> s]

CalculateRoomCavityIndex ==
    /\ pc = "start"
    /\ fn = "calculate_room_cavity_index"
    /\ ret' = calculate_room_cavity_index(args.room_length, args.room_width,
                  args.room_height, args.working_plane_height,
                  args.suspension_distance)
    /\ pc' = "done"
    /\ UNCHANGED <<fn, metadata, uf_table, args, gui>>

NextRci == CalculateRoomCavityIndex

SpecRci == InitRci /\ [][NextRci]_vars

\* the required illuminance is tried in steps of 100 lux, up to MaxELevel steps
MaxELevel == 3

Illuminances == {I(100 * k) : k \in 0..MaxELevel}

FixtureRooms == {<<I(20), I(10)>>, <<I(10), I(20)>>, <<I(5), I(5)>>, <<I(30), I(20)>>}

LuminousFluxes == {I(16000), I(8000), I(0), I(-100)}

UtilizationFactors == {Q(3, 4), Q(1, 2), Q(9, 10), I(0), Q(-1, 10)}

MaintenanceFactors == {Q(8, 10), I(1), Q(1, 2), I(0)}

InitFixtures ==
    /\ pc = "start"
    /\ fn = "calculate_number_of_fixtures"
    /\ metadata = MetadataOf(Q(12, 10))
    /\ uf_table = NoTable
    /\ ret = None
    /\ gui = Gui0
    /\ \E E \in Illuminances, room \in FixtureRooms, f \in LuminousFluxes,
          u \in UtilizationFactors, m \in MaintenanceFactors :
          args = [E |-> E, room_length |-> room[1], room_width |-> room[2],
                  luminous_flux |-> f, Uf |-> u, MF |-> m]

CalculateNumberOfFixtures ==
    /\ pc = "start"
    /\ fn = "calculate_number_of_fixtures"
    /\ ret' = calculate_number_of_fixtures(args.E, args.room_length,
                  args.room_width, args.luminous_flux, args.Uf, args.MF)
    /\ pc' = "done"
    /\ UNCHANGED <<fn, metadata, uf_table, args, gui>>

NextFixtures == CalculateNumberOfFixtures

SpecFixtures == InitFixtures /\ [][NextFixtures]_vars

---------------------------------------------------------------------------
(* Utilisation-factor table                                                *)
(*                                                                         *)
(* uf_table is [columns |-> labels, rows |-> rows]: the labels of the      *)
(* DataFrame's columns after the first, and its rows, each                 *)
(* [K |-> the cell of the first column, uf |-> the cells of the others].   *)
(* A cell of the first column is [kind |-> k, v |-> number]: a float       *)
(* ("num"), a string that reads as a number ("numstr"), any other string   *)
(* ("str") or NaN ("nan").  A label is what split("_") makes of it: a      *)
(* sequence of parts, each [head |-> its first two characters,             *)
(* isint |-> whether int() accepts the rest, v |-> that integer].          *)

\* 1e-9
Eps == [n |-> <<1>>, d |-> <<0, 1>>]

NumCell(v) == [kind |-> "num", v |-> v]

NumStrCell(v) == [kind |-> "numstr", v |-> v]

StrCell == [kind |-> "str", v |-> I(0)]

NaNCell == [kind |-> "nan", v |-> I(0)]

\* a conversion that reads strings only: what is a number already is lost
to_numeric_StringsOnly(cell) ==
    IF cell.kind = "numstr" THEN NumCell(cell.v) ELSE NaNCell

\* pd.to_numeric(..., errors="coerce") of one cell
to_numeric(cell) ==
    IF cell.kind \in {"num", "numstr"} THEN NumCell(cell.v) ELSE NaNCell

\* df.iloc[:, 0] = pd.to_numeric(df.iloc[:, 0], errors="coerce"): the table
\* with its first column converted
CoerceFirstColumn(df) ==
    [columns |-> df.columns,
     rows |-> [i \in 1..Len(df.rows) |->
                  [K |-> to_numeric(df.rows[i].K), uf |-> df.rows[i].uf]]]

\* df.dropna(subset=[df.columns[0]]): a new table without the NaN rows
DropNaRows(df) ==
    [columns |-> df.columns,
     rows |-> SelectSeq(df.rows, LAMBDA r : r.K.kind # "nan")]

\* the label parsing without the failure of int() on a part
ParseLabel_Unchecked(label) ==
    IF label[1].head = "Rc" /\ Len(label) = 3
    THEN Some(<<label[1].v, label[2].v, label[3].v>>)
    ELSE None

\* the reflectances a column label stands for, None when it is no
\* Rc<int>_Rw<int>_Rf<int> label (only the first part's letters are looked at)
ParseLabel(label) ==
    IF label[1].head = "Rc" /\ Len(label) = 3
          /\ label[1].isint /\ label[2].isint /\ label[3].isint
    THEN Some(<<label[1].v, label[2].v, label[3].v>>)
    ELSE None

\* reflectance_combinations, in column order: <<column, (Rc, Rw, Rf)>>
RECURSIVE ReflectanceCombinations(_, _)
ReflectanceCombinations(columns, i) ==
    IF i > Len(columns) THEN <<>>
    ELSE LET parsed == ParseLabel(columns[i])
         IN  (IF parsed = None THEN <<>> ELSE <<<<i, parsed[1]>>>>)
             \o ReflectanceCombinations(columns, i + 1)

\* distance between the requested reflectances and a column's
Distance(tags, Rc, Rw, Rf) ==
    Add(Add(AbsQ(Sub(I(tags[1]), Rc)), AbsQ(Sub(I(tags[2]), Rw))),
        AbsQ(Sub(I(tags[3]), Rf)))

\* a sort that puts the later of two entries of equal distance first
RECURSIVE SortDistances_TiesReversed(_)
SortDistances_TiesReversed(s) ==
    IF Len(s) = 0 THEN <<>>
    ELSE LET t == SortDistances_TiesReversed(SubSeq(s, 1, Len(s) - 1))
             x == s[Len(s)]
             k == Cardinality({i \in 1..Len(t) : Lt(t[i][1], x[1])})
         IN  SubSeq(t, 1, k) \o <<x>> \o SubSeq(t, k + 1, Len(t))

\* distances.sort(key=lambda x: x[0]): a stable sort of <<distance, column>>
RECURSIVE SortDistances(_)
SortDistances(s) ==
    IF Len(s) = 0 THEN <<>>
    ELSE LET t == SortDistances(SubSeq(s, 1, Len(s) - 1))
             x == s[Len(s)]
             k == Cardinality({i \in 1..Len(t) : Le(t[i][1], x[1])})
         IN  SubSeq(t, 1, k) \o <<x>> \o SubSeq(t, k + 1, Len(t))

\* the greatest and the least of a non-empty set of numbers
MaxNum(S) == CHOOSE x \in S : \A y \in S : Le(y, x)

MinNum(S) == CHOOSE x \in S : \A y \in S : Le(x, y)

\* df[df.iloc[:, 0] == key][col].values[0]: the cell of the first row keyed key
ValueAt(df, key, col) ==
    LET i == CHOOSE j \in 1..Len(df.rows) :
                 /\ df.rows[j].K.v = key
                 /\ \A k \in 1..(j - 1) : df.rows[k].K.v # key
    IN  df.rows[i].uf[col]

\* the range check with the bounds shut out
OutOfRange_Exclusive(K, min_K, max_K) == Le(K, min_K) \/ Ge(K, max_K)

\* the test of the range check
OutOfRange(K, min_K, max_K) == Lt(K, min_K) \/ Gt(K, max_K)

\* the plain mean of the two columns instead of the weighted one
WeightedUf_PlainMean(Uf1, Uf2, diff1, diff2) == Div(Add(Uf1, Uf2), I(2))

\* the weighted average of the two closest columns
WeightedUf(Uf1, Uf2, diff1, diff2) ==
    LET weight1 == Div(I(1), Add(diff1, Eps))
        weight2 == Div(I(1), Add(diff2, Eps))
    IN  Div(Add(Mul(Uf1, weight1), Mul(Uf2, weight2)), Add(weight1, weight2))

\* the interpolation without the division by the distance of the two keys
LinearUf_NoSpan(K, lower_K, upper_K, Uf_lower, Uf_upper) ==
    IF lower_K = upper_K THEN Uf_lower
    ELSE Add(Uf_lower, Mul(Sub(K, lower_K), Sub(Uf_upper, Uf_lower)))

\* the value of one column at K: the stored one when the bracketing keys
\* coincide, else Uf_lower + (K - lower_K) * (Uf_upper - Uf_lower) / (upper_K - lower_K)
LinearUf(K, lower_K, upper_K, Uf_lower, Uf_upper) ==
    IF lower_K = upper_K THEN Uf_lower
    ELSE Add(Uf_lower,
             Div(Mul(Sub(K, lower_K), Sub(Uf_upper, Uf_lower)),
                 Sub(upper_K, lower_K)))

\* what interpolate_uf hands back: the value or the error, and the columns and
\* keys it had selected by then (0 and None where it had not)
UfResult(ok, value, error, col1, col2, lower_K, upper_K) ==
    [ok |-> ok, value |-> value, error |-> error, col1 |-> col1, col2 |-> col2,
     lower_K |-> lower_K, upper_K |-> upper_K]

\* interpolate_uf, its statements after the first (which converts the first
\* column of the caller's table in place): df is the table after dropna
InterpolateClean(K, Rc, Rw, Rf, df) ==
    LET K_values == {df.rows[i].K.v : i \in 1..Len(df.rows)}
        combos == ReflectanceCombinations(df.columns, 1)
        distances == SortDistances([i \in 1..Len(combos) |->
                         <<Distance(combos[i][2], Rc, Rw, Rf), combos[i][1]>>])
        col1 == distances[1][2]
        col2 == distances[2][2]
        lower_K == MaxNum({k \in K_values : Le(k, K)})
        upper_K == MinNum({k \in K_values : Ge(k, K)})
        Uf1_lower == ValueAt(df, lower_K, col1)
        Uf1_upper == ValueAt(df, upper_K, col1)
        Uf2_lower == ValueAt(df, lower_K, col2)
        Uf2_upper == ValueAt(df, upper_K, col2)
        Uf1 == LinearUf(K, lower_K, upper_K, Uf1_lower, Uf1_upper)
        Uf2 == LinearUf(K, lower_K, upper_K, Uf2_lower, Uf2_upper)
    IN  IF K_values # {} /\ OutOfRange(K, MinNum(K_values), MaxNum(K_values))
        THEN UfResult(FALSE, I(0), "Room Cavity Index (K) must be between min_K and max_K.",
                      0, 0, None, None)
        ELSE IF Len(combos) = 0
        THEN UfResult(FALSE, I(0), "No valid reflectance columns found in the CSV file.",
                      0, 0, None, None)
        ELSE IF Len(combos) < 2
        THEN UfResult(FALSE, I(0), "list index out of range", col1, 0, None, None)
        ELSE IF K_values = {}
        THEN UfResult(FALSE, I(0), "zero-size array to reduction operation maximum which has no identity",
                      col1, col2, None, None)
        ELSE UfResult(TRUE, WeightedUf(Uf1, Uf2, distances[1][1], distances[2][1]),
                      "", col1, col2, Some(lower_K), Some(upper_K))

interpolate_uf(K, Rc, Rw, Rf, df) ==
    InterpolateClean(K, Rc, Rw, Rf, DropNaRows(CoerceFirstColumn(df)))

---------------------------------------------------------------------------
(* The interpolation applied to bounded inputs                             *)

Part(head, v) == [head |-> head, isint |-> TRUE, v |-> v]

\* the label "Rc<rc>_Rw<rw>_Rf<rf>"
Label(rc, rw, rf) == <<Part("Rc", rc), Part("Rw", rw), Part("Rf", rf)>>

\* a label such as "Unnamed: 4"
OtherLabel == <<[head |-> "Un", isint |-> FALSE, v |-> 0]>>

Row(K, uf) == [K |-> K, uf |-> uf]

\* hundredths
H(i) == Q(i, 100)

\* a table as the loader leaves a clean file: float keys, four columns
TableFloat ==
    [columns |-> <<Label(70, 50, 20), Label(50, 30, 10), Label(30, 30, 10),
                   Label(50, 50, 10)>>,
     rows |-> <<Row(NumCell(H(75)), <<H(52), H(45), H(41), H(48)>>),
                Row(NumCell(I(1)), <<H(60), H(53), H(49), H(56)>>),
                Row(NumCell(I(2)), <<H(78), H(75), H(66), H(74)>>),
                Row(NumCell(I(5)), <<H(93), H(88), H(84), H(90)>>)>>]

\* a file with a text row in the key column (every key is read as a string),
\* rows out of order and a column that is no reflectance combination
TableText ==
    [columns |-> <<Label(50, 30, 10), OtherLabel, Label(70, 50, 20)>>,
     rows |-> <<Row(StrCell, <<H(0), H(0), H(0)>>),
                Row(NumStrCell(I(2)), <<H(75), H(1), H(78)>>),
                Row(NumStrCell(H(75)), <<H(45), H(2), H(52)>>),
                Row(NumStrCell(I(5)), <<H(88), H(3), H(93)>>)>>]

\* a table with a single reflectance column
TableOneColumn ==
    [columns |-> <<Label(50, 30, 10), OtherLabel>>,
     rows |-> <<Row(NumCell(H(75)), <<H(45), H(1)>>),
                Row(NumCell(I(5)), <<H(88), H(2)>>)>>]

\* a label such as "Rc70_Rwxx_Rf20"
BadIntLabel == <<Part("Rc", 70), [head |-> "Rw", isint |-> FALSE, v |-> 0], Part("Rf", 20)>>

\* a table whose second column has a label int() does not accept
TableBadLabel ==
    [columns |-> <<Label(50, 30, 10), BadIntLabel>>,
     rows |-> <<Row(NumCell(H(75)), <<H(45), H(52)>>),
                Row(NumCell(I(5)), <<H(88), H(93)>>)>>]

\* a table without a numeric key
TableNoKeys ==
    [columns |-> <<Label(50, 30, 10), Label(70, 50, 20)>>,
     rows |-> <<Row(StrCell, <<H(45), H(52)>>), Row(StrCell, <<H(88), H(93)>>)>>]

\* a table without a reflectance column
TableNoColumns ==
    [columns |-> <<OtherLabel, OtherLabel>>,
     rows |-> <<Row(NumCell(H(75)), <<H(45), H(52)>>),
                Row(NumCell(I(5)), <<H(88), H(93)>>)>>]

Tables ==
    {TableFloat, TableText, TableOneColumn, TableBadLabel, TableNoKeys,
     TableNoColumns}

CavityIndexes ==
    {Q(1, 2), Q(7499, 10000), H(75), I(1), Q(12, 10), I(2), I(3), I(5),
     Q(50001, 10000), I(6)}

CeilingReflectances == {I(50), I(70), I(40)}

WallReflectances == {I(30), I(50)}

FloorReflectances == {I(10), I(20)}

InitUf ==
    /\ pc = "start"
    /\ fn = "interpolate_uf"
    /\ metadata = MetadataOf(Q(12, 10))
    /\ uf_table \in Tables
    /\ ret = None
    /\ gui = Gui0
    /\ \E K \in CavityIndexes, Rc \in CeilingReflectances,
          Rw \in WallReflectances, Rf \in FloorReflectances :
          args = [K |-> K, Rc |-> Rc, Rw |-> Rw, Rf |-> Rf]

\* interpolate_uf(K, Rc, Rw, Rf, uf_table): the table passed is the global,
\* whose first column the call converts in place
InterpolateUf ==
    /\ pc = "start"
    /\ fn = "interpolate_uf"
    /\ ret' = interpolate_uf(args.K, args.Rc, args.Rw, args.Rf, uf_table)
    /\ uf_table' = CoerceFirstColumn(uf_table)
    /\ pc' = "done"
    /\ UNCHANGED <<fn, metadata, args, gui>>

NextUf == InterpolateUf

SpecUf == InitUf /\ [][NextUf]_vars

---------------------------------------------------------------------------
(* Input validation                                                        *)

\* float('nan'): no comparison with it is true
NaN == [n |-> <<>>, d |-> <<>>]

IsNaN(x) == x = NaN

\* x < y and x > y on floats
FloatLt(x, y) == IF IsNaN(x) \/ IsNaN(y) THEN FALSE ELSE Lt(x, y)

FloatGt(x, y) == IF IsNaN(x) \/ IsNaN(y) THEN FALSE ELSE Gt(x, y)

\* float(value) of the text of an entry
ToFloat(value) ==
    IF value.kind = "num" THEN Return(value.v)
    ELSE IF value.kind = "nan" THEN Return(NaN)
    ELSE IF value.kind = "inf" THEN Return(Inf)
    ELSE Raise("could not convert string to float")

\* validate_input: min_value and max_value are None or Some(bound).  The
\* ValueError of a bound is raised inside the try and caught with that of
\* float(), so every failure carries the same message.
validate_input(value, field_name, min_value, max_value) ==
    LET parsed == ToFloat(value)
    IN  IF ~parsed.ok
        THEN Raise("Invalid input. Please enter a numeric value.")
        ELSE IF min_value # None /\ FloatLt(parsed.value, min_value[1])
        THEN Raise("Invalid input. Please enter a numeric value.")
        ELSE IF max_value # None /\ FloatGt(parsed.value, max_value[1])
        THEN Raise("Invalid input. Please enter a numeric value.")
        ELSE Return(parsed.value)

---------------------------------------------------------------------------
(* The validation applied to bounded inputs                                *)

RawValues ==
    {RawNum(v) : v \in {I(-5), I(0), Q(5, 100), Q(1, 10), Q(8, 10), I(1),
                        I(50), I(100), Q(1005, 10), I(150)}}
        \cup {RawNaN, RawInf, RawText, RawEmpty}

MinValues == {None, Some(I(0)), Some(Q(1, 10))}

MaxValues == {None, Some(I(1)), Some(I(100))}

InitValidate ==
    /\ pc = "start"
    /\ fn = "validate_input"
    /\ metadata = MetadataOf(Q(12, 10))
    /\ uf_table = NoTable
    /\ ret = None
    /\ gui = Gui0
    /\ \E value \in RawValues, min_value \in MinValues, max_value \in MaxValues :
          args = [value |-> value, field_name |-> "field",
                  min_value |-> min_value, max_value |-> max_value]

ValidateInput ==
    /\ pc = "start"
    /\ fn = "validate_input"
    /\ ret' = validate_input(args.value, args.field_name, args.min_value,
                             args.max_value)
    /\ pc' = "done"
    /\ UNCHANGED <<fn, metadata, uf_table, args, gui>>

NextValidate == ValidateInput

SpecValidate == InitValidate /\ [][NextValidate]_vars

---------------------------------------------------------------------------
(* Loading a CSV file                                                      *)
(*                                                                         *)
(* A file is [path, table, Fixture_Name, Luminous_Flux, Wattage, SHRNOM]:  *)
(* table is None where load_uf_table fails on the file and Some(table)     *)
(* otherwise; Fixture_Name is None or Some(name); the other three are the  *)
(* value parts of the metadata lines: absent, a number or a text float()   *)
(* rejects.  The global metadata is a function from the keys the file gave *)
(* to their values, and None (like uf_table) as long as nothing is loaded. *)

AbsentLine == [kind |-> "absent", v |-> I(0)]

NumLine(v) == [kind |-> "num", v |-> v]

TextLine == [kind |-> "text", v |-> I(0)]

CsvFile(path, table, name, flux, wattage, shrnom) ==
    [path |-> path, table |-> table, Fixture_Name |-> name,
     Luminous_Flux |-> flux, Wattage |-> wattage, SHRNOM |-> shrnom]

\* f"{x:.0f}" read as an integer: x rounded, a half to the even neighbour
Format0f(x) ==
    LET a == PCoef(x.n, 1)
        b == PCoef(x.d, 1)
        q == a \div b
        r == a % b
    IN  IF 2 * r > b \/ (2 * r = b /\ q % 2 = 1) THEN q + 1 ELSE q

\* f"{x:.2f}": x rounded to hundredths
Format2f(x) == Q(Format0f(Mul(x, I(100))), 100)

load_uf_table(csv_file) ==
    IF csv_file.table = None THEN Raise("Error loading CSV file")
    ELSE [ok |-> TRUE, value |-> csv_file.table[1], error |-> ""]

\* extract_metadata: the dictionary of the keys found, or the error of a
\* float() on one of the lines
extract_metadata(csv_file) ==
    IF \/ csv_file.Luminous_Flux.kind = "text"
       \/ csv_file.Wattage.kind = "text"
       \/ csv_file.SHRNOM.kind = "text"
    THEN Raise("Error extracting metadata")
    ELSE LET keys ==
                 (IF csv_file.Fixture_Name # None THEN {"Fixture_Name"} ELSE {})
                 \cup (IF csv_file.Luminous_Flux.kind = "num"
                       THEN {"Luminous_Flux"} ELSE {})
                 \cup (IF csv_file.Wattage.kind = "num" THEN {"Wattage"} ELSE {})
                 \cup (IF csv_file.SHRNOM.kind = "num"
                       THEN {"SHRNOM", "SHRNOM_Modified"} ELSE {})
         IN  [ok |-> TRUE,
              value |-> [k \in keys |->
                  CASE k = "Fixture_Name" -> csv_file.Fixture_Name[1]
                    [] k = "Luminous_Flux" -> Format0f(csv_file.Luminous_Flux.v)
                    [] k = "Wattage" -> csv_file.Wattage.v
                    [] k = "SHRNOM" -> csv_file.SHRNOM.v
                    [] k = "SHRNOM_Modified" -> Mul(csv_file.SHRNOM.v, SHR_FACTOR)],
              error |-> ""]

\* the four labels and the path entry set one after the other from the
\* metadata, up to the first key that is missing
LabelsSet(g, md, path) ==
    LET n1 == "Fixture_Name" \in DOMAIN md
        n2 == n1 /\ "Luminous_Flux" \in DOMAIN md
        n3 == n2 /\ "Wattage" \in DOMAIN md
        n4 == n3 /\ "SHRNOM" \in DOMAIN md
    IN  [g EXCEPT
            !.fixture_name = IF n1 THEN Some(md["Fixture_Name"]) ELSE @,
            !.luminous_flux = IF n2 THEN Some(md["Luminous_Flux"]) ELSE @,
            !.wattage = IF n3 THEN Some(md["Wattage"]) ELSE @,
            !.shr_nom = IF n4 THEN Some(<<Format2f(md["SHRNOM"]),
                                          Format2f(md["SHRNOM_Modified"])>>)
                        ELSE @,
            !.csv_file_path = IF n4 THEN Some(path) ELSE @]

\* load_csv_file for the file chosen in the dialog: the globals and the
\* window it leaves.  Each statement takes effect as it is reached; the
\* first that raises ends the handler.
load_csv_file(csv_file) ==
    LET table == load_uf_table(csv_file)
        md == extract_metadata(csv_file)
    IN  IF ~table.ok
        THEN [uf_table |-> uf_table, metadata |-> metadata, gui |-> gui]
        ELSE IF ~md.ok
        THEN [uf_table |-> table.value, metadata |-> metadata, gui |-> gui]
        ELSE [uf_table |-> table.value, metadata |-> md.value,
              gui |-> LabelsSet(gui, md.value, csv_file.path)]

---------------------------------------------------------------------------
(* Files loaded one after the other                                        *)

\* TableFloat with every utilisation factor i hundredths lower
TableDimmed(i) ==
    [columns |-> TableFloat.columns,
     rows |-> [r \in 1..Len(TableFloat.rows) |->
                  Row(TableFloat.rows[r].K,
                      [c \in 1..Len(TableFloat.rows[r].uf) |->
                          Sub(TableFloat.rows[r].uf[c], H(i))])]]

\* three complete files
GoodFiles ==
    {CsvFile("a.csv", Some(TableText), Some("HB-A"), NumLine(I(16000)),
             NumLine(I(100)), NumLine(Q(12, 10))),
     CsvFile("b.csv", Some(TableFloat), Some("HB-B"), NumLine(Q(16001, 2)),
             NumLine(I(150)), NumLine(I(1))),
     CsvFile("g.csv", Some(TableDimmed(6)), Some("HB-G"), NumLine(I(12000)),
             NumLine(Q(1205, 10)), NumLine(Q(8, 10)))}

\* files on which the handler stops part-way: no table can be read, a
\* metadata value is no number, a metadata line is missing
BrokenFiles ==
    {CsvFile("c.csv", None, Some("HB-C"), NumLine(I(9000)), NumLine(I(90)),
             NumLine(Q(11, 10))),
     CsvFile("d.csv", Some(TableDimmed(1)), Some("HB-D"), TextLine,
             NumLine(I(110)), NumLine(Q(13, 10))),
     CsvFile("e1.csv", Some(TableDimmed(2)), None, NumLine(I(10000)),
             NumLine(I(120)), NumLine(Q(14, 10))),
     CsvFile("e2.csv", Some(TableDimmed(3)), Some("HB-E2"), AbsentLine,
             NumLine(I(130)), NumLine(Q(15, 10))),
     CsvFile("e3.csv", Some(TableDimmed(4)), Some("HB-E3"), NumLine(I(11000)),
             AbsentLine, NumLine(Q(16, 10))),
     CsvFile("e4.csv", Some(TableDimmed(5)), Some("HB-E4"), NumLine(I(13000)),
             NumLine(I(140)), AbsentLine)}

Files == GoodFiles \cup BrokenFiles

\* the dialog closed without a file
NoFile == None

\* the program as the window is built: nothing loaded, nothing calculated
InitLoad ==
    /\ pc = "idle"
    /\ fn = "mainloop"
    /\ metadata = None
    /\ uf_table = None
    /\ args = None
    /\ ret = None
    /\ gui = Gui0

\* the button "Load CSV File"
LoadCsvFile ==
    /\ pc = "idle"
    /\ fn = "mainloop"
    /\ \E csv_file \in Files \cup {NoFile} :
          LET after == IF csv_file = NoFile
                       THEN [uf_table |-> uf_table, metadata |-> metadata,
                             gui |-> gui]
                       ELSE load_csv_file(csv_file)
          IN  /\ uf_table' = after.uf_table
              /\ metadata' = after.metadata
              /\ gui' = after.gui
    /\ UNCHANGED <<pc, fn, args, ret>>

NextLoad == LoadCsvFile

SpecLoad == InitLoad /\ [][NextLoad]_vars

---------------------------------------------------------------------------
(* The array search called again with the same arguments after another     *)
(* file has been loaded                                                    *)

\* the button "Load CSV File" pressed, with a complete file, between two
\* calls of find_valid_arrays with the same arguments
ReloadCsvFile ==
    /\ pc = "done"
    /\ fn = "find_valid_arrays"
    /\ \E csv_file \in GoodFiles :
          LET after == load_csv_file(csv_file)
          IN  /\ uf_table' = after.uf_table
              /\ metadata' = after.metadata
              /\ gui' = after.gui
    /\ pc' = "start"
    /\ UNCHANGED <<fn, args, ret>>

NextArraysReload == FindValidArrays \/ ReloadCsvFile

SpecArraysReload == InitArrays /\ [][NextArraysReload]_vars

---------------------------------------------------------------------------
(* The calculation                                                         *)

\* the adjusted level with the two counts exchanged
calculate_adjusted_light_level_Inverted(E, num_fixtures, actual_fixtures) ==
    IF actual_fixtures = 0 THEN Raise("division by zero")
    ELSE Return(Mul(E, Q(num_fixtures, actual_fixtures)))

\* E * (actual_fixtures / num_fixtures): the division is one of integers
calculate_adjusted_light_level(E, num_fixtures, actual_fixtures) ==
    IF num_fixtures = 0 THEN Raise("division by zero")
    ELSE Return(Mul(E, Q(actual_fixtures, num_fixtures)))

\* the entries in the order they are validated, with the bounds passed
Fields ==
    <<"room_length", "room_width", "room_height", "working_plane_height",
      "suspension_distance", "ceiling_reflectance", "walls_reflectance",
      "floor_reflectance", "E", "MF">>

FieldMin(field) ==
    IF field \in {"room_length", "room_width", "room_height", "working_plane_height"}
    THEN Some(Q(1, 10))
    ELSE Some(I(0))

FieldMax(field) ==
    IF field \in {"ceiling_reflectance", "walls_reflectance", "floor_reflectance"}
    THEN Some(I(100))
    ELSE IF field = "MF" THEN Some(I(1))
    ELSE None

\* what a request came to: ok or the error shown, and the values computed
\* before it ended (None for those not reached)
Outcome(ok, error, K, Uf, num_fixtures, arrays) ==
    [ok |-> ok, error |-> error, K |-> K, Uf |-> Uf,
     num_fixtures |-> num_fixtures, arrays |-> arrays]

\* the layouts drawn for the arrays found: the even one, then the odd one
Drawn(even_array, odd_array) == even_array \o odd_array

\* the end of a request: the table, the window and the outcome it leaves
Ended(table, g, outcome) == [uf_table |-> table, gui |-> g, outcome |-> outcome]

\* the ten entries validated
Validated ==
    [i \in 1..Len(Fields) |->
        validate_input(gui.entries[Fields[i]], Fields[i],
                       FieldMin(Fields[i]), FieldMax(Fields[i]))]

\* calculate_and_display from the results list on: the results table has been
\* cleared, and is filled only when every row has been formatted.  The rows
\* are kept as the values they are formatted from.
DisplayResults(checks, K, Uf, num_fixtures, arrays) ==
    LET E == checks[9].value
        mounting_height == Sub(Sub(checks[3].value, checks[4].value), checks[5].value)
        adjusted == [parity \in {"even", "odd"} |->
                        LET a == IF parity = "even" THEN arrays.even_array
                                 ELSE arrays.odd_array
                        IN  IF a = None THEN Return(None)
                            ELSE calculate_adjusted_light_level(
                                     E, num_fixtures, a[1].fixtures)]
        cleaned == CoerceFirstColumn(uf_table)
        cleared == [gui EXCEPT !.result_table = None]
    IN  IF gui.fixture_name = None
        THEN Ended(cleaned, cleared,
                   Outcome(FALSE, "list index out of range", Some(K), Some(Uf),
                           Some(num_fixtures), Some(arrays)))
        ELSE IF ~adjusted["even"].ok \/ ~adjusted["odd"].ok
        THEN Ended(cleaned, cleared,
                   Outcome(FALSE, "division by zero", Some(K), Some(Uf),
                           Some(num_fixtures), Some(arrays)))
        ELSE Ended(cleaned,
                   [gui EXCEPT
                       !.result_table =
                           Some([fixture_name |-> gui.fixture_name[1],
                                 luminous_flux |-> I(gui.luminous_flux[1]),
                                 wattage |-> gui.wattage[1],
                                 SHRNOM |-> metadata["SHRNOM"],
                                 SHRNOM_Modified |-> metadata["SHRNOM_Modified"],
                                 entries |-> [i \in 1..Len(Fields) |-> checks[i].value],
                                 mounting_height |-> mounting_height,
                                 K |-> K, Uf |-> Uf,
                                 num_fixtures |-> num_fixtures,
                                 even_array |-> arrays.even_array,
                                 odd_array |-> arrays.odd_array,
                                 adjusted_E |-> <<adjusted["even"].value,
                                                  adjusted["odd"].value>>]),
                       !.canvases = Drawn(arrays.even_array, arrays.odd_array)],
                   Outcome(TRUE, "", Some(K), Some(Uf), Some(num_fixtures),
                           Some(arrays)))

\* calculate_and_display from the mounting height on
SearchArrays(checks, K, Uf, num_fixtures) ==
    LET room_length == checks[1].value
        room_width == checks[2].value
        mounting_height == Sub(Sub(checks[3].value, checks[4].value), checks[5].value)
    IN  IF Le(mounting_height, I(0))
        THEN Ended(CoerceFirstColumn(uf_table), gui,
                   Outcome(FALSE,
                           "Invalid mounting height (check room height and suspension distance)",
                           Some(K), Some(Uf), Some(num_fixtures), None))
        ELSE CHOOSE after \in
                 {DisplayResults(checks, K, Uf, num_fixtures,
                                 [even_array |-> found.even_array,
                                  odd_array |-> found.odd_array]) :
                      found \in {find_valid_arrays(num_fixtures,
                                     calculate_aspect_ratio(room_length, room_width),
                                     room_length, room_width, mounting_height,
                                     metadata["SHRNOM_Modified"])}} : TRUE

\* calculate_and_display from the fixture count on
CountFixtures(checks, K, Uf) ==
    CHOOSE after \in
        {IF ~num_fixtures.ok
         THEN Ended(CoerceFirstColumn(uf_table), gui,
                    Outcome(FALSE, num_fixtures.error, Some(K), Some(Uf), None, None))
         ELSE SearchArrays(checks, K, Uf, num_fixtures.value) :
             num_fixtures \in {calculate_number_of_fixtures(
                                  checks[9].value, checks[1].value, checks[2].value,
                                  I(gui.luminous_flux[1]), Uf, checks[10].value)}} : TRUE

\* calculate_and_display from the interpolation on: the call converts the key
\* column of the table whatever it returns
Interpolate(checks, K) ==
    CHOOSE after \in
        {IF ~Uf.ok
         THEN Ended(CoerceFirstColumn(uf_table), gui,
                    Outcome(FALSE, Uf.error, Some(K), None, None, None))
         ELSE CountFixtures(checks, K, Uf.value) :
             Uf \in {interpolate_uf(K, checks[6].value, checks[7].value,
                                    checks[8].value, uf_table)}} : TRUE

\* calculate_and_display once the entries are validated
Calculate(checks) ==
    LET failed == {i \in 1..Len(Fields) : ~checks[i].ok}
    IN  IF failed # {}
        THEN Ended(uf_table, gui,
                   Outcome(FALSE,
                           checks[CHOOSE i \in failed : \A j \in failed : i <= j].error,
                           None, None, None, None))
        ELSE IF gui.luminous_flux = None \/ gui.wattage = None
        THEN Ended(uf_table, gui,
                   Outcome(FALSE, "list index out of range", None, None, None, None))
        ELSE IF metadata = None \/ "SHRNOM_Modified" \notin DOMAIN metadata
        THEN Ended(uf_table, gui,
                   Outcome(FALSE, "'SHRNOM_Modified'", None, None, None, None))
        ELSE CHOOSE after \in
                 {IF ~K.ok
                  THEN Ended(uf_table, gui,
                             Outcome(FALSE, K.error, None, None, None, None))
                  ELSE Interpolate(checks, K.value) :
                      K \in {calculate_room_cavity_index(
                                checks[1].value, checks[2].value, checks[3].value,
                                checks[4].value, checks[5].value)}} : TRUE

\* calculate_and_display: the table, the window and the outcome it leaves
calculate_and_display ==
    CHOOSE after \in {Calculate(checks) : checks \in {Validated}} : TRUE

---------------------------------------------------------------------------
(* The calculation run again and again on a loaded file                    *)

\* <<length, width, height, working plane height, suspension distance>>
CalcRooms ==
    {<<I(16), I(16), Q(48, 10), Q(8, 10), I(0)>>,
     <<I(20), I(10), I(4), Q(8, 10), I(0)>>,
     <<I(5), I(2), I(4), Q(8, 10), I(0)>>,
     <<I(20), I(10), I(1), Q(8, 10), Q(1, 2)>>}

\* <<ceiling, walls, floor>>
CalcReflectances == {<<I(50), I(30), I(10)>>, <<I(150), I(30), I(10)>>}

CalcIlluminances == {RawNum(I(300)), RawNum(I(0))}

CalcMaintenanceFactors == {RawNum(Q(8, 10)), RawNum(I(0))}

\* the entries filled in
EntriesOf(room, refl, E, MF) ==
    [room_length |-> RawNum(room[1]), room_width |-> RawNum(room[2]),
     room_height |-> RawNum(room[3]), working_plane_height |-> RawNum(room[4]),
     suspension_distance |-> RawNum(room[5]),
     ceiling_reflectance |-> RawNum(refl[1]), walls_reflectance |-> RawNum(refl[2]),
     floor_reflectance |-> RawNum(refl[3]), E |-> E, MF |-> MF]

\* a complete file has been loaded and the entries are filled in
InitCalc ==
    /\ pc = "idle"
    /\ fn = "mainloop"
    /\ args = None
    /\ ret = None
    /\ \E csv_file \in GoodFiles, room \in CalcRooms, refl \in CalcReflectances,
          E \in CalcIlluminances, MF \in CalcMaintenanceFactors :
          /\ uf_table = load_uf_table(csv_file).value
          /\ metadata = extract_metadata(csv_file).value
          /\ gui = LabelsSet([Gui0 EXCEPT !.entries = EntriesOf(room, refl, E, MF)],
                             extract_metadata(csv_file).value, csv_file.path)

\* the button "Calculate": pc tells whether it has been pressed before
CalculateAndDisplay ==
    /\ fn = "mainloop"
    /\ \E after \in {calculate_and_display} :
           /\ uf_table' = after.uf_table
           /\ gui' = after.gui
           /\ ret' = after.outcome
    /\ pc' = IF pc = "idle" THEN "calculated" ELSE "recalculated"
    /\ UNCHANGED <<fn, metadata, args>>

NextCalc == CalculateAndDisplay

SpecCalc == InitCalc /\ [][NextCalc]_vars

---------------------------------------------------------------------------
(* The calculation run between changes of the illuminance entry            *)

\* <<length, width, height, working plane height, suspension distance>>
EditRooms ==
    {<<I(16), I(16), Q(48, 10), Q(8, 10), I(0)>>,
     <<I(20), I(10), I(4), Q(8, 10), I(0)>>}

\* the texts typed into the illuminance entry
EditIlluminances == {RawNum(I(300)), RawNum(I(100)), RawNum(I(0))}

\* a complete file has been loaded and the entries are filled in
InitCalcEdit ==
    /\ pc = "idle"
    /\ fn = "mainloop"
    /\ args = None
    /\ ret = None
    /\ \E csv_file \in GoodFiles, room \in EditRooms, E \in EditIlluminances :
          /\ uf_table = load_uf_table(csv_file).value
          /\ metadata = extract_metadata(csv_file).value
          /\ gui = LabelsSet([Gui0 EXCEPT !.entries =
                                 EntriesOf(room, <<I(50), I(30), I(10)>>, E,
                                           RawNum(Q(8, 10)))],
                             extract_metadata(csv_file).value, csv_file.path)

\* the user types another illuminance: nothing has been calculated from the
\* entries as they now are
EditIlluminance ==
    /\ fn = "mainloop"
    /\ \E E \in EditIlluminances :
           /\ E # gui.entries.E
           /\ gui' = [gui EXCEPT !.entries.E = E]
    /\ pc' = "idle"
    /\ UNCHANGED <<fn, metadata, uf_table, args, ret>>

NextCalcEdit == CalculateAndDisplay \/ EditIlluminance

SpecCalcEdit == InitCalcEdit /\ [][NextCalcEdit]_vars

---------------------------------------------------------------------------
(* Floats as the interpreter computes them: IEEE 754 binary64, every       *)
(* operation rounded to the nearest double, ties to the even mantissa.     *)
(* Natural numbers of any size are sequences of digits, the least first,   *)
(* without leading zeros.                                                  *)

\* the base of the digits: 2^14
BigBase == 16384

BigBits == 14

\* the bits of a double's mantissa
MantissaBits == 53

RECURSIVE BigCarry(_, _)
BigCarry(p, c) ==
    IF Len(p) = 0
    THEN (IF c = 0 THEN <<>> ELSE <<c % BigBase>> \o BigCarry(<<>>, c \div BigBase))
    ELSE <<(Head(p) + c) % BigBase>> \o BigCarry(Tail(p), (Head(p) + c) \div BigBase)

BigOf(n) == BigCarry(<<>>, n)

BigAdd(a, b) ==
    PTrim(BigCarry([i \in 1..MaxOf(Len(a), Len(b)) |-> PCoef(a, i) + PCoef(b, i)], 0))

\* a - b for a >= b
RECURSIVE BigBorrow(_, _, _)
BigBorrow(a, b, c) ==
    IF Len(a) = 0 THEN <<>>
    ELSE LET t == Head(a) - PCoef(b, 1) - c
         IN  <<t % BigBase>>
                 \o BigBorrow(Tail(a), IF Len(b) = 0 THEN <<>> ELSE Tail(b),
                              IF t < 0 THEN 1 ELSE 0)

BigSub(a, b) == PTrim(BigBorrow(a, b, 0))

BigMul(a, b) ==
    IF Len(a) = 0 \/ Len(b) = 0 THEN <<>>
    ELSE PTrim(BigCarry([k \in 1..(Len(a) + Len(b) - 1) |-> Conv(a, b, k, 1)], 0))

\* -1, 0 or 1 as a is below, equal to or above b
RECURSIVE BigCmp(_, _)
BigCmp(a, b) ==
    IF Len(a) # Len(b) THEN (IF Len(a) < Len(b) THEN -1 ELSE 1)
    ELSE IF Len(a) = 0 THEN 0
    ELSE IF a[Len(a)] # b[Len(b)] THEN (IF a[Len(a)] < b[Len(b)] THEN -1 ELSE 1)
    ELSE BigCmp(PTrim(SubSeq(a, 1, Len(a) - 1)), PTrim(SubSeq(b, 1, Len(b) - 1)))

\* the number of bits of a
BigLen(a) ==
    IF Len(a) = 0 THEN 0
    ELSE BigBits * (Len(a) - 1)
             + (CHOOSE k \in 1..BigBits : 2^(k - 1) <= a[Len(a)] /\ a[Len(a)] < 2^k)

\* bit i of a, bit 1 the lowest
BigBit(a, i) == (PCoef(a, ((i - 1) \div BigBits) + 1) \div 2^((i - 1) % BigBits)) % 2

\* a * 2^k
BigShl(a, k) ==
    IF Len(a) = 0 THEN <<>>
    ELSE [i \in 1..(k \div BigBits) |-> 0]
             \o PTrim(BigCarry([i \in 1..Len(a) |-> a[i] * 2^(k % BigBits)], 0))

\* a \div 2^k
BigShr(a, k) ==
    LET n == k \div BigBits
        r == k % BigBits
        b == IF n >= Len(a) THEN <<>> ELSE SubSeq(a, n + 1, Len(a))
    IN  PTrim([i \in 1..Len(b) |->
                  (b[i] \div 2^r) + (PCoef(b, i + 1) % 2^r) * 2^(BigBits - r)])

\* r * 2^n divided by d, for r < d: the quotient added to q * 2^n, and the
\* remainder
RECURSIVE BigDivBits(_, _, _, _)
BigDivBits(r, d, n, q) ==
    IF n = 0 THEN [q |-> q, r |-> r]
    ELSE CHOOSE z \in {BigDivBits(s.r, d, n - 1, s.q) :
                          s \in {LET t == BigShl(r, 1)
                                 IN  IF BigCmp(t, d) >= 0
                                     THEN [r |-> BigSub(t, d), q |-> BigAdd(BigShl(q, 1), <<1>>)]
                                     ELSE [r |-> t, q |-> BigShl(q, 1)]}} : TRUE

\* the same for c digits
RECURSIVE BigDivDigits(_, _, _, _)
BigDivDigits(r, d, c, q) ==
    IF c = 0 THEN [q |-> q, r |-> r]
    ELSE CHOOSE z \in {BigDivDigits(s.r, d, c - 1, BigAdd(BigShl(q, BigBits), s.q)) :
                          s \in {BigDivBits(r, d, BigBits, <<>>)}} : TRUE

\* the double 0.0
FZero == [s |-> 0, m |-> <<>>, e |-> 0]

\* the double nearest to s * m * 2^e for m > 0: a mantissa of 53 bits, and of
\* two nearest doubles the one with the even mantissa
RoundValue(s, m, e) ==
    LET len == BigLen(m)
        k == len - MantissaBits
        q == BigShr(m, k)
        half == BigBit(m, k) = 1
        rest == k > 1 /\ BigShl(BigShr(m, k - 1), k - 1) # m
        up == half /\ (rest \/ BigBit(q, 1) = 1)
        q1 == IF up THEN BigAdd(q, <<1>>) ELSE q
    IN  IF len <= MantissaBits
        THEN [s |-> s, m |-> BigShl(m, MantissaBits - len), e |-> e - (MantissaBits - len)]
        ELSE IF BigLen(q1) > MantissaBits
        THEN [s |-> s, m |-> BigShr(q1, 1), e |-> e + k + 1]
        ELSE [s |-> s, m |-> q1, e |-> e + k]

Round(s, m, e) == CHOOSE x \in {RoundValue(s, v, e) : v \in {m}} : TRUE

\* float(n) of an integer
FInt(n) == IF n = 0 THEN FZero ELSE Round(IF n < 0 THEN -1 ELSE 1, BigOf(Abs(n)), 0)

FNeg(x) == [s |-> -x.s, m |-> x.m, e |-> x.e]

FMulValue(x, y) ==
    IF x.s = 0 \/ y.s = 0 THEN FZero
    ELSE Round(x.s * y.s, BigMul(x.m, y.m), x.e + y.e)

\* x * y
FMul(x, y) == CHOOSE z \in {FMulValue(a, b) : a \in {x}, b \in {y}} : TRUE

FAddValue(x, y) ==
    IF x.s = 0 THEN y
    ELSE IF y.s = 0 THEN x
    ELSE LET e == MinOf(x.e, y.e)
             a == BigShl(x.m, x.e - e)
             b == BigShl(y.m, y.e - e)
             c == BigCmp(a, b)
         IN  IF x.s = y.s THEN Round(x.s, BigAdd(a, b), e)
             ELSE IF c = 0 THEN FZero
             ELSE IF c > 0 THEN Round(x.s, BigSub(a, b), e)
             ELSE Round(y.s, BigSub(b, a), e)

\* x + y
FAdd(x, y) == CHOOSE z \in {FAddValue(a, b) : a \in {x}, b \in {y}} : TRUE

\* x - y
FSub(x, y) == FAdd(x, FNeg(y))

\* The mantissas have 53 bits each, so the quotient of the first by the
\* second is 0 or 1; it is continued by 56 bits (4 digits), and a last bit
\* tells whether the division left a remainder, which is all the rounding
\* needs.
FDivValue(x, y) ==
    IF x.s = 0 THEN FZero
    ELSE LET q0 == IF BigCmp(x.m, y.m) >= 0 THEN <<1>> ELSE <<>>
             r0 == IF BigCmp(x.m, y.m) >= 0 THEN BigSub(x.m, y.m) ELSE x.m
             d == BigDivDigits(r0, y.m, 4, q0)
             m == BigAdd(BigShl(d.q, 1), IF Len(d.r) = 0 THEN <<>> ELSE <<1>>)
         IN  Round(x.s * y.s, m, x.e - y.e - 4 * BigBits - 1)

\* x / y, y # 0
FDiv(x, y) == CHOOSE z \in {FDivValue(a, b) : a \in {x}, b \in {y}} : TRUE

\* the double a decimal text with the value n / d stands for
FDec(n, d) == FDiv(FInt(n), FInt(d))

\* -1, 0 or 1 as x is below, equal to or above y
FCmp(x, y) ==
    IF x.s # y.s THEN (IF x.s < y.s THEN -1 ELSE 1)
    ELSE IF x.s = 0 THEN 0
    ELSE IF x.e # y.e THEN (IF x.e < y.e THEN -x.s ELSE x.s)
    ELSE x.s * BigCmp(x.m, y.m)

FLe(x, y) == FCmp(x, y) <= 0

FMin(x, y) == IF FLe(x, y) THEN x ELSE y

FMax(x, y) == IF FLe(x, y) THEN y ELSE x


---------------------------------------------------------------------------
(* interpolate_uf from the stored values on, in doubles                    *)

\* 1e-9
FEps == FDec(1, 1000000000)

\* the average weighted by the first weight alone
FloatWeightedUf_FirstWeightOnly(Uf1, Uf2, diff1, diff2) ==
    LET weight1 == FDiv(FInt(1), FAdd(diff1, FEps))
        weight2 == FDiv(FInt(1), FAdd(diff2, FEps))
    IN  FDiv(FAdd(FMul(Uf1, weight1), FMul(Uf2, weight2)), weight1)

\* (Uf1 * weight1 + Uf2 * weight2) / (weight1 + weight2)
FloatWeightedUf(Uf1, Uf2, diff1, diff2) ==
    LET weight1 == FDiv(FInt(1), FAdd(diff1, FEps))
        weight2 == FDiv(FInt(1), FAdd(diff2, FEps))
    IN  FDiv(FAdd(FMul(Uf1, weight1), FMul(Uf2, weight2)), FAdd(weight1, weight2))

\* Uf_lower + (K - lower_K) * (Uf_upper - Uf_lower) / (upper_K - lower_K), or
\* the stored value when the key is matched
FloatLinearUf(K, lower_K, upper_K, Uf_lower, Uf_upper) ==
    IF lower_K = upper_K THEN Uf_lower
    ELSE FAdd(Uf_lower,
              FDiv(FMul(FSub(K, lower_K), FSub(Uf_upper, Uf_lower)),
                   FSub(upper_K, lower_K)))

\* the statements of interpolate_uf after the stored values are read
FloatUf(K, lower_K, upper_K, Uf1_lower, Uf1_upper, Uf2_lower, Uf2_upper, diff1, diff2) ==
    FloatWeightedUf(FloatLinearUf(K, lower_K, upper_K, Uf1_lower, Uf1_upper),
                    FloatLinearUf(K, lower_K, upper_K, Uf2_lower, Uf2_upper),
                    diff1, diff2)

\* <<K, lower_K, upper_K>>: a key matched, and two cavity indexes between keys
FloatBrackets ==
    {<<FInt(2), FInt(2), FInt(2)>>,
     <<FDec(23, 10), FInt(2), FDec(25, 10)>>,
     <<FDec(25, 12), FInt(2), FInt(5)>>}

\* <<the value stored at lower_K, the value stored at upper_K>> of a column
FloatColumnValues ==
    {<<FDec(63, 100), FDec(63, 100)>>, <<FDec(63, 100), FDec(75, 100)>>,
     <<FDec(88, 100), FDec(75, 100)>>, <<FDec(75, 100), FDec(75, 100)>>}

\* <<diff1, diff2>>: the distances of the two closest columns
FloatDistances ==
    {<<FInt(0), FInt(20)>>, <<FInt(30), FInt(40)>>, <<FInt(10), FInt(10)>>}

\* with a key matched both rows are the same row
InitUfFloat ==
    /\ pc = "start"
    /\ fn = "interpolate_uf"
    /\ metadata = None
    /\ uf_table = NoTable
    /\ ret = None
    /\ gui = Gui0
    /\ \E b \in FloatBrackets, c1 \in FloatColumnValues, c2 \in FloatColumnValues,
          d \in FloatDistances :
          /\ b[2] = b[3] => (c1[1] = c1[2] /\ c2[1] = c2[2])
          /\ args = [K |-> b[1], lower_K |-> b[2], upper_K |-> b[3],
                     Uf1_lower |-> c1[1], Uf1_upper |-> c1[2],
                     Uf2_lower |-> c2[1], Uf2_upper |-> c2[2],
                     diff1 |-> d[1], diff2 |-> d[2]]

InterpolateUfFloat ==
    /\ pc = "start"
    /\ fn = "interpolate_uf"
    /\ ret' = Return(FloatUf(args.K, args.lower_K, args.upper_K,
                             args.Uf1_lower, args.Uf1_upper,
                             args.Uf2_lower, args.Uf2_upper,
                             args.diff1, args.diff2))
    /\ pc' = "done"
    /\ UNCHANGED <<fn, metadata, uf_table, args, gui>>

NextUfFloat == InterpolateUfFloat

SpecUfFloat == InitUfFloat /\ [][NextUfFloat]_vars

---------------------------------------------------------------------------
(* Claims about the array search, stated from the arguments of the call    *)
(* and the arrays it returned                                              *)

ArraysDone == pc = "done" /\ fn = "find_valid_arrays"

\* the candidates find_valid_arrays returned (the even one, the odd one)
ReturnedCandidates ==
    {s[1] : s \in {x \in {ret.even_array, ret.odd_array} : Len(x) = 1}}

\* the result returned for a parity
ResultOf(parity) == IF parity = "even" THEN ret.even_array ELSE ret.odd_array

ParityOf(across_width) == IF across_width % 2 = 0 THEN "even" ELSE "odd"

\* spacing = dimension / count, or the full dimension when count = 1
SpacingOf(dim, count) == IF count = 1 THEN dim ELSE Div(dim, I(count))

\* both directional spacing-to-height ratios of an array are within the limit
ShrWithin(o, limit) ==
    /\ Gt(args.mounting_height, I(0))
    /\ Le(Div(SpacingOf(args.room_length, o[1]), args.mounting_height), limit)
    /\ Le(Div(SpacingOf(args.room_width, o[2]), args.mounting_height), limit)

\* the three-case minimum-spacing rule, with the minimum of 3.0 m
MinSpacingRule(o) ==
    IF o[1] = 1
    THEN o[2] > 1 => Ge(SpacingOf(args.room_width, o[2]), I(3))
    ELSE IF o[2] = 1
    THEN Ge(SpacingOf(args.room_length, o[1]), I(3))
    ELSE /\ Ge(SpacingOf(args.room_length, o[1]), I(3))
         /\ Ge(SpacingOf(args.room_width, o[2]), I(3))

\* the arrays <<alongLength, acrossWidth>> with both counts in 1..side, the
\* larger count along the longer side of the room
OrientedPairs(side) ==
    {o \in (1..side) \X (1..side) :
        IF Ge(args.aspect_ratio, I(1)) THEN o[1] >= o[2] ELSE o[1] <= o[2]}

\* an array that gives enough fixtures and meets both rules
Qualifies(o) ==
    /\ o[1] * o[2] >= args.num_fixtures
    /\ ShrWithin(o, args.shr_nom)
    /\ MinSpacingRule(o)

\* the qualifying arrays among the enumerated ones (rows, cols <= N + 3)
ValidEnumerated == {o \in OrientedPairs(args.num_fixtures + 3) : Qualifies(o)}

C2_MinSpacing ==
    ArraysDone =>
        /\ \A c \in ReturnedCandidates : MinSpacingRule(c.array)
        /\ \A o \in ValidEnumerated :
               (o[1] = 1 \/ o[2] = 1) =>
                   \E i \in 1..Len(ret.valid_arrays) : ret.valid_arrays[i].array = o

\* C2's case: a candidate is returned whose single column spans a width below
\* the minimum spacing
C2_Witness ==
    /\ ArraysDone
    /\ \E c \in ReturnedCandidates :
           /\ c.array[2] = 1
           /\ c.array[1] > 1
           /\ Lt(c.spacing_width, I(3))

\* the ranking of the claims: |total - N| first, then the total
RankedBefore(o1, o2) ==
    LET t1 == o1[1] * o1[2]
        t2 == o2[1] * o2[2]
        N == args.num_fixtures
    IN  Abs(t1 - N) < Abs(t2 - N) \/ (Abs(t1 - N) = Abs(t2 - N) /\ t1 < t2)

\* C3: the result of each parity is a valid enumerated candidate of that
\* parity, and no valid enumerated candidate of the same parity is ranked
\* before it (smaller |total - N|, or equal |total - N| and smaller total).
C3_BestOfParity ==
    ArraysDone =>
        \A parity \in {"even", "odd"} :
            Len(ResultOf(parity)) = 1 =>
                LET best == ResultOf(parity)[1]
                IN  /\ best.array \in ValidEnumerated
                    /\ ParityOf(best.array[2]) = parity
                    /\ best.parity = parity
                    /\ \A o \in ValidEnumerated :
                           ParityOf(o[2]) = parity => ~RankedBefore(o, best.array)

\* C3's case: each parity has several valid candidates of different totals
C3_Witness ==
    /\ ArraysDone
    /\ \A parity \in {"even", "odd"} :
           /\ Len(ResultOf(parity)) = 1
           /\ \E o \in ValidEnumerated :
                  /\ ParityOf(o[2]) = parity
                  /\ RankedBefore(ResultOf(parity)[1].array, o)

\* the largest number of rows or columns looked at for 'an array of any size'
MaxAnyDim == 12

\* C4 as claimed: None is returned for a parity only when no oriented array
\* of that parity, of any size, gives N fixtures and meets both rules (looked
\* at where at least one fixture is required and the fixtures hang above the
\* working plane).
C4_NoneOnlyIfNoArrayOfAnySize ==
    (ArraysDone /\ args.num_fixtures >= 1 /\ Gt(args.mounting_height, I(0))) =>
        \A parity \in {"even", "odd"} :
            ResultOf(parity) = None =>
                ~\E o \in OrientedPairs(MaxAnyDim) :
                     ParityOf(o[2]) = parity /\ Qualifies(o)

\* C4 as amended: None is returned for a parity only when no enumerated
\* array (rows, cols <= N + 3) of that parity gives N fixtures and meets both
\* rules; the call always returns, each result None or one candidate.
C4_NoneOnlyIfNoEnumeratedArray ==
    ArraysDone =>
        \A parity \in {"even", "odd"} :
            /\ Len(ResultOf(parity)) \in {0, 1}
            /\ ResultOf(parity) = None =>
                   ~\E o \in ValidEnumerated : ParityOf(o[2]) = parity

\* C4's case: for a room that can be lit, one parity has no candidate and the
\* other has one
C4_Witness ==
    /\ ArraysDone
    /\ args.num_fixtures >= 1
    /\ Gt(args.mounting_height, I(0))
    /\ ret.even_array = None
    /\ Len(ret.odd_array) = 1

\* C5: in the scenario (room 20 x 10, mounting height 3.2, E = 300, MF = 0.8,
\* flux 16000, Uf = 0.75, limit 1.8) the fixture count is 7, and the search for
\* that count returns an even and an odd candidate, each of at least 7
\* fixtures, both SHRs at most 1.8 and both spacings at least 3.0.
C5_Scenario ==
    LET count == calculate_number_of_fixtures(I(300), I(20), I(10), I(16000),
                                              Q(75, 100), Q(8, 10))
    IN  /\ count.ok
        /\ count.value = 7
        /\ ( /\ ArraysDone
             /\ args.num_fixtures = count.value
             /\ args.room_length = I(20)
             /\ args.room_width = I(10)
             /\ args.mounting_height = Q(32, 10)
             /\ args.shr_nom = Q(18, 10) )
           => /\ Len(ret.even_array) = 1
              /\ Len(ret.odd_array) = 1
              /\ \A c \in ReturnedCandidates :
                     /\ c.fixtures >= 7
                     /\ c.fixtures = c.array[1] * c.array[2]
                     /\ ShrWithin(c.array, Q(18, 10))
                     /\ Ge(SpacingOf(I(20), c.array[1]), I(3))
                     /\ Ge(SpacingOf(I(10), c.array[2]), I(3))

\* C5's case: the search has returned for the scenario's arguments
C5_Witness ==
    /\ ArraysDone
    /\ args.num_fixtures = 7
    /\ args.room_length = I(20)
    /\ args.room_width = I(10)
    /\ args.mounting_height = Q(32, 10)
    /\ args.shr_nom = Q(18, 10)
    /\ Len(ret.even_array) = 1
    /\ Len(ret.odd_array) = 1

---------------------------------------------------------------------------
(* Claims about the fixture count and the room cavity index                *)

FixturesDone == pc = "done" /\ fn = "calculate_number_of_fixtures"

\* (E * length * width) / (flux * Uf * MF) for the arguments of the call
LumenRatio ==
    Div(Mul(args.E, Mul(args.room_length, args.room_width)),
        Mul(args.luminous_flux, Mul(args.Uf, args.MF)))

\* C6: the call fails whenever flux <= 0 or Uf <= 0 or MF <= 0; otherwise it
\* returns the ceiling of (E * length * width) / (flux * Uf * MF): the least
\* integer not below it, at least 1 when E > 0 and the room has an area, and
\* 0 only when E = 0.
C6_CeilingOrFailure ==
    FixturesDone =>
        IF \/ Le(args.luminous_flux, I(0))
           \/ Le(args.Uf, I(0))
           \/ Le(args.MF, I(0))
        THEN ~ret.ok
        ELSE /\ ret.ok
             /\ Ge(I(ret.value), LumenRatio)
             /\ Lt(I(ret.value - 1), LumenRatio)
             /\ ( /\ Gt(args.E, I(0))
                  /\ Gt(args.room_length, I(0))
                  /\ Gt(args.room_width, I(0)) ) => ret.value >= 1
             /\ ret.value = 0 => args.E = I(0)

\* C6's case: a count is returned that rounds a fractional ratio up
C6_Witness ==
    /\ FixturesDone
    /\ ret.ok
    /\ ret.value >= 2
    /\ Gt(I(ret.value), LumenRatio)

\* the count the function gives with an argument changed (read only where
\* the changed call succeeds)
CountFor(E, room, flux, Uf, MF) ==
    calculate_number_of_fixtures(E, room[1], room[2], flux, Uf, MF).value

\* C7: with the other arguments fixed, the count does not decrease when E or
\* the room area grows, and does not increase when the luminous flux, Uf or
\* MF grows (over E >= 0 and positive length, width, flux, Uf, MF).
C7_Monotonic ==
    (FixturesDone /\ ret.ok) =>
        LET room == <<args.room_length, args.room_width>>
            area == Mul(args.room_length, args.room_width)
        IN  /\ \A E2 \in Illuminances :
                   Ge(E2, args.E) =>
                       CountFor(E2, room, args.luminous_flux, args.Uf, args.MF)
                           >= ret.value
            /\ \A room2 \in FixtureRooms :
                   Ge(Mul(room2[1], room2[2]), area) =>
                       CountFor(args.E, room2, args.luminous_flux, args.Uf, args.MF)
                           >= ret.value
            /\ \A f2 \in LuminousFluxes :
                   Ge(f2, args.luminous_flux) =>
                       CountFor(args.E, room, f2, args.Uf, args.MF) <= ret.value
            /\ \A u2 \in UtilizationFactors :
                   Ge(u2, args.Uf) =>
                       CountFor(args.E, room, args.luminous_flux, u2, args.MF)
                           <= ret.value
            /\ \A m2 \in MaintenanceFactors :
                   Ge(m2, args.MF) =>
                       CountFor(args.E, room, args.luminous_flux, args.Uf, m2)
                           <= ret.value

\* C7's case: a count that a larger E raises and a larger flux, a larger Uf
\* and a larger MF each lower
C7_Witness ==
    /\ FixturesDone
    /\ ret.ok
    /\ LET room == <<args.room_length, args.room_width>>
       IN  /\ \E E2 \in Illuminances :
                  CountFor(E2, room, args.luminous_flux, args.Uf, args.MF)
                      > ret.value
           /\ \E f2 \in LuminousFluxes :
                  /\ Gt(f2, args.luminous_flux)
                  /\ CountFor(args.E, room, f2, args.Uf, args.MF) < ret.value
           /\ \E u2 \in UtilizationFactors :
                  /\ Gt(u2, args.Uf)
                  /\ CountFor(args.E, room, args.luminous_flux, u2, args.MF)
                         < ret.value
           /\ \E m2 \in MaintenanceFactors :
                  /\ Gt(m2, args.MF)
                  /\ CountFor(args.E, room, args.luminous_flux, args.Uf, m2)
                         < ret.value

RciDone == pc = "done" /\ fn = "calculate_room_cavity_index"

\* h = height - workingPlaneHeight - suspensionDistance for the arguments
MountingHeightOfArgs ==
    Sub(args.room_height, Add(args.working_plane_height, args.suspension_distance))

\* C8: the call fails whenever h <= 0; for h > 0 it returns
\* K = (length * width) / (h * (length + width)), finite and above 0.
C8_CavityIndex ==
    RciDone =>
        IF Le(MountingHeightOfArgs, I(0))
        THEN ~ret.ok
        ELSE /\ ret.ok
             /\ ~IsInf(ret.value)
             /\ Gt(ret.value, I(0))
             /\ Eq(Mul(ret.value,
                       Mul(MountingHeightOfArgs,
                           Add(args.room_length, args.room_width))),
                   Mul(args.room_length, args.room_width))

\* C8's case: an index is returned for a positive mounting height
C8_Witness ==
    /\ RciDone
    /\ Gt(MountingHeightOfArgs, I(0))
    /\ ret.ok
    /\ Gt(ret.value, I(1))

---------------------------------------------------------------------------
(* Claims about the interpolation, stated from the arguments of the call,  *)
(* the table and what the call handed back                                 *)

UfDone == pc = "done" /\ fn = "interpolate_uf"

\* the rows of the table whose cavity-index key is numeric
NumericRows == {i \in 1..Len(uf_table.rows) : uf_table.rows[i].K.kind = "num"}

\* the numeric cavity-index keys of the table
NumericKeys == {uf_table.rows[i].K.v : i \in NumericRows}

\* the columns that are reflectance combinations
ValidColumns ==
    {c \in 1..Len(uf_table.columns) :
        LET label == uf_table.columns[c]
        IN  /\ Len(label) = 3
            /\ label[1].head = "Rc"
            /\ \A i \in 1..3 : label[i].isint}

\* a well-formed table: numeric keys, at least two reflectance combinations
WellFormed == NumericKeys # {} /\ Cardinality(ValidColumns) >= 2

\* |Rc_col - Rc| + |Rw_col - Rw| + |Rf_col - Rf| for a column and the request
DistanceOfColumn(c) ==
    LET label == uf_table.columns[c]
    IN  Add(AbsQ(Sub(I(label[1].v), args.Rc)),
            Add(AbsQ(Sub(I(label[2].v), args.Rw)),
                AbsQ(Sub(I(label[3].v), args.Rf))))

\* the value stored in column c at the row keyed K
StoredAt(K, c) ==
    LET r == CHOOSE i \in NumericRows : uf_table.rows[i].K.v = K
    IN  uf_table.rows[r].uf[c]

\* C9: with minK and maxK the least and greatest numeric keys, the call
\* succeeds for K = minK and for K = maxK on a well-formed table, and fails
\* with the out-of-range error for every K < minK and every K > maxK, no
\* column having been selected (also where the columns could not be).
C9_InclusiveRange ==
    (UfDone /\ NumericKeys # {}) =>
        LET minK == MinNum(NumericKeys)
            maxK == MaxNum(NumericKeys)
        IN  /\ (Lt(args.K, minK) \/ Gt(args.K, maxK)) =>
                   /\ ~ret.ok
                   /\ ret.error = "Room Cavity Index (K) must be between min_K and max_K."
                   /\ ret.col1 = 0
                   /\ ret.col2 = 0
            /\ (WellFormed /\ (args.K = minK \/ args.K = maxK)) => ret.ok

\* C9's case: the call has succeeded for K = minK on a well-formed table
\* with more than one key
C9_Witness ==
    /\ UfDone
    /\ WellFormed
    /\ args.K = MinNum(NumericKeys)
    /\ args.K # MaxNum(NumericKeys)
    /\ ret.ok

ColumnBefore(a, b) ==
    \/ Lt(DistanceOfColumn(a), DistanceOfColumn(b))
    \/ (Eq(DistanceOfColumn(a), DistanceOfColumn(b)) /\ a < b)

\* the first of a non-empty set of columns in that order
FirstColumn(S) == CHOOSE c \in S : \A o \in S \ {c} : ColumnBefore(c, o)

\* C11: the two columns a successful call has used are the first two of the
\* reflectance columns ordered by (distance, column position), the distance of
\* a column being |Rc_col - Rc| + |Rw_col - Rw| + |Rf_col - Rf|: of columns at
\* equal distance the earlier one is preferred.
C11_TwoClosestColumns ==
    (UfDone /\ ret.ok) =>
        /\ ret.col1 = FirstColumn(ValidColumns)
        /\ ret.col2 = FirstColumn(ValidColumns \ {ret.col1})

\* C11's case: the second column used is at the same distance as a later
\* column, which was not used
C11_Witness ==
    /\ UfDone
    /\ ret.ok
    /\ \E c \in ValidColumns :
           /\ c > ret.col2
           /\ Eq(DistanceOfColumn(c), DistanceOfColumn(ret.col2))
           /\ Gt(DistanceOfColumn(c), DistanceOfColumn(ret.col1))

\* the greatest key <= K and the least key >= K of the table
LowerKey ==
    CHOOSE k \in NumericKeys :
        Le(k, args.K) /\ \A o \in NumericKeys : Le(o, args.K) => Le(o, k)

UpperKey ==
    CHOOSE k \in NumericKeys :
        Ge(k, args.K) /\ \A o \in NumericKeys : Ge(o, args.K) => Ge(o, k)

\* the value of column c at K by the bracketing rule
ColumnValue(c) ==
    IF LowerKey = UpperKey THEN StoredAt(LowerKey, c)
    ELSE Add(StoredAt(LowerKey, c),
             Div(Mul(Sub(args.K, LowerKey),
                     Sub(StoredAt(UpperKey, c), StoredAt(LowerKey, c))),
                 Sub(UpperKey, LowerKey)))

\* the inverse-distance weighted average of the values of two columns
CombinedValue(c1, c2) ==
    LET w1 == Div(I(1), Add(DistanceOfColumn(c1), Eps))
        w2 == Div(I(1), Add(DistanceOfColumn(c2), Eps))
    IN  Div(Add(Mul(ColumnValue(c1), w1), Mul(ColumnValue(c2), w2)), Add(w1, w2))

\* C12: a successful call has used lowerK = the greatest key <= K and
\* upperK = the least key >= K, and what it returns is the weighted average
\* of the two selected columns' values at K, each the stored value when
\* lowerK = upperK and lower + (K - lowerK) * (upper - lower) / (upperK - lowerK)
\* otherwise.
C12_BracketAndInterpolate ==
    (UfDone /\ ret.ok) =>
        /\ ret.lower_K = Some(LowerKey)
        /\ ret.upper_K = Some(UpperKey)
        /\ ret.value = CombinedValue(ret.col1, ret.col2)

\* C12's case: K lies strictly between two keys that are not 1 apart, in
\* columns whose values at the two keys differ
C12_Witness ==
    /\ UfDone
    /\ ret.ok
    /\ Lt(LowerKey, args.K)
    /\ Lt(args.K, UpperKey)
    /\ ~Eq(Sub(UpperKey, LowerKey), I(1))
    /\ ~Eq(StoredAt(LowerKey, ret.col1), StoredAt(UpperKey, ret.col1))
    /\ ~Eq(StoredAt(LowerKey, ret.col2), StoredAt(UpperKey, ret.col2))

\* C13: the call fails, and returns no utilization factor, whenever fewer
\* than two columns of the table are reflectance combinations (exactly one
\* included) and whenever no row has a numeric key once the non-numeric rows
\* are discarded.
C13_MalformedTable ==
    (UfDone /\ (Cardinality(ValidColumns) < 2 \/ NumericKeys = {})) =>
        /\ ~ret.ok
        /\ ret.error # ""

\* C13's case: the call has failed on a table with exactly one reflectance
\* column for a K within the range of its keys
C13_Witness ==
    /\ UfDone
    /\ Cardinality(ValidColumns) = 1
    /\ NumericKeys # {}
    /\ Le(MinNum(NumericKeys), args.K)
    /\ Le(args.K, MaxNum(NumericKeys))
    /\ ~ret.ok

\* C13's other case: the call has failed on a table with two reflectance
\* columns and no numeric key
C13_WitnessNoKeys ==
    /\ UfDone
    /\ Cardinality(ValidColumns) >= 2
    /\ NumericKeys = {}
    /\ ~ret.ok

\* C14: a call of interpolate_uf leaves the caller's table unchanged: every
\* row, key and cell of the table passed in is after the call, successful or
\* failed, what it was before.
C14_TableUnchanged == [][InterpolateUf => uf_table' = uf_table]_vars

\* C14's case: a call has returned and the table holds a row whose key is
\* NaN, where the table loaded had a text
C14_Witness ==
    /\ UfDone
    /\ \E i \in 1..Len(uf_table.rows) : uf_table.rows[i].K.kind = "nan"

---------------------------------------------------------------------------
(* Further claims about the array search                                   *)

\* C16: the deduplicated list never holds two entries with the same
\* (alongLength, acrossWidth) pair, although the enumeration reaches a pair
\* from (rows, cols) and from (cols, rows), and the even and the odd candidate
\* returned are never the same pair.
C16_NoDuplicatePairs ==
    ArraysDone =>
        /\ \A i, j \in 1..Len(ret.unique_arrays) :
               i # j => ret.unique_arrays[i].array # ret.unique_arrays[j].array
        /\ \A i \in 1..Len(ret.valid_arrays) :
               \E j \in 1..Len(ret.unique_arrays) :
                   ret.unique_arrays[j].array = ret.valid_arrays[i].array
        /\ (Len(ret.even_array) = 1 /\ Len(ret.odd_array) = 1) =>
               ret.even_array[1].array # ret.odd_array[1].array

\* C16's case: the enumeration has reached a pair twice, and both candidates
\* are returned
C16_Witness ==
    /\ ArraysDone
    /\ \E i, j \in 1..Len(ret.valid_arrays) :
           i # j /\ ret.valid_arrays[i].array = ret.valid_arrays[j].array
    /\ Len(ret.unique_arrays) >= 2
    /\ Len(ret.even_array) = 1
    /\ Len(ret.odd_array) = 1

\* C19: every candidate is oriented by the room's shape: alongLength >=
\* acrossWidth when the aspect ratio (length / width) is >= 1, and
\* alongLength <= acrossWidth when it is < 1.
C19_OrientedByRoomShape ==
    ArraysDone =>
        /\ Eq(args.aspect_ratio, Div(args.room_length, args.room_width))
        /\ \A c \in ReturnedCandidates
                   \cup {ret.unique_arrays[i] : i \in 1..Len(ret.unique_arrays)} :
               IF Ge(Div(args.room_length, args.room_width), I(1))
               THEN c.array[1] >= c.array[2]
               ELSE c.array[1] <= c.array[2]

\* C19's case: a room wider than long, with a candidate returned whose two
\* counts differ
C19_Witness ==
    /\ ArraysDone
    /\ Lt(args.room_length, args.room_width)
    /\ \E c \in ReturnedCandidates : c.array[1] # c.array[2]

---------------------------------------------------------------------------
(* Claims about the validation of the entries                              *)

ValidateDone == pc = "done" /\ fn = "validate_input"

\* the text of the entry reads as a number v with min <= v <= max, each bound
\* applied only when given
WithinBounds ==
    /\ args.value.kind \in {"num", "inf"}
    /\ LET v == IF args.value.kind = "inf" THEN Inf ELSE args.value.v
       IN  /\ args.min_value # None => Le(args.min_value[1], v)
           /\ args.max_value # None => Le(v, args.max_value[1])

\* C17: validate_input returns the numeric value v exactly when the text of
\* the field reads as a number with min <= v <= max (each bound inclusive and
\* applied only when given), and fails with an input error otherwise; so a
\* value that is not within [0, 100] is never returned for a reflectance.
C17_ValidatedWithinBounds ==
    ValidateDone =>
        /\ ret.ok <=> WithinBounds
        /\ ret.ok => ret.value = (IF args.value.kind = "inf" THEN Inf ELSE args.value.v)
        /\ ~ret.ok => ret.error # ""

\* C17's case: a call with both bounds given has returned a value
C17_Witness ==
    /\ ValidateDone
    /\ args.min_value # None
    /\ args.max_value # None
    /\ ret.ok

---------------------------------------------------------------------------
(* Claims about the loading of files                                       *)

\* the table, the modified SHR limit of the metadata and the luminous flux
\* displayed are those of the file f
AllFromFile(f) ==
    /\ f.table = Some(uf_table)
    /\ f.SHRNOM.kind = "num"
    /\ metadata # None
    /\ "SHRNOM_Modified" \in DOMAIN metadata
    /\ metadata["SHRNOM_Modified"] = Mul(f.SHRNOM.v, SHR_FACTOR)
    /\ f.Luminous_Flux.kind = "num"
    /\ gui.luminous_flux = Some(Format0f(f.Luminous_Flux.v))

NothingLoaded == uf_table = None /\ metadata = None /\ gui.luminous_flux = None

\* C20: after any sequence of load_csv_file attempts the table, the fixture
\* metadata (modified SHR limit) and the luminous flux displayed all come
\* from the same file (or nothing is loaded yet): a load that fails part-way
\* leaves all three as they were.
C20_GlobalsFromOneFile == NothingLoaded \/ \E f \in Files : AllFromFile(f)

\* C20's case: a complete file has been loaded, and after it a file whose
\* table can be read and whose metadata cannot
C20_Witness ==
    /\ \E f \in BrokenFiles : f.table = Some(uf_table)
    /\ \E g \in GoodFiles :
           /\ metadata # None
           /\ "SHRNOM_Modified" \in DOMAIN metadata
           /\ metadata["SHRNOM_Modified"] = Mul(g.SHRNOM.v, SHR_FACTOR)
           /\ gui.luminous_flux = Some(Format0f(g.Luminous_Flux.v))
           /\ gui.csv_file_path = Some(g.path)

---------------------------------------------------------------------------
(* Claims about the inputs of the array search                             *)

\* C15: the result of find_valid_arrays is a function of its arguments only:
\* a call with the arguments of an earlier call returns the even and the odd
\* candidate of that call whatever fixture metadata has been loaded since,
\* and the SHR limit met by the candidates is the one passed as argument.
C15_FunctionOfArguments ==
    /\ [](ArraysDone =>
             \A c \in ReturnedCandidates : ShrWithin(c.array, args.shr_nom))
    /\ [][(FindValidArrays /\ ret # None) =>
             /\ ret'.even_array = ret.even_array
             /\ ret'.odd_array = ret.odd_array]_vars

\* C15's case: the search has returned while the metadata loaded holds another
\* limit than the one passed
C15_Witness ==
    /\ ArraysDone
    /\ metadata["SHRNOM_Modified"] # args.shr_nom

---------------------------------------------------------------------------
(* Claims about the calculation run twice                                  *)

\* C18: when the calculation is run a second time on the same loaded table,
\* metadata and field values, its outcome (K, Uf, the fixture count and the
\* even and odd candidates, or the error) is the outcome of the first run,
\* although the first run has converted the key column of the shared table.
C18_SameOutcomeTwice ==
    [][(CalculateAndDisplay /\ pc = "calculated") => ret' = ret]_vars

\* the calculation has succeeded a second time on a file whose key column
\* was text when loaded, so that the table in memory is no longer the file's
C18_Witness ==
    /\ pc = "recalculated"
    /\ ret.ok
    /\ ret.arrays[1].even_array # None
    /\ \E f \in GoodFiles :
           /\ gui.csv_file_path = Some(f.path)
           /\ uf_table # f.table[1]
           /\ uf_table = CoerceFirstColumn(f.table[1])

---------------------------------------------------------------------------
(* Claims about what a request leaves on display                           *)

\* C21: a request that ends in an error leaves the rows of the results
\* table and the layouts drawn as they were before it, the request with
\* E = 0 (fixture count 0) for which a candidate is found included.
C21_ErrorChangesNothingDisplayed ==
    [][(CalculateAndDisplay /\ ~ret'.ok) =>
           /\ gui'.result_table = gui.result_table
           /\ gui'.canvases = gui.canvases]_vars

\* a request with E = 0 has ended in the division by zero after a successful
\* one: the results table is empty and the earlier layouts are still drawn
C21_Witness ==
    /\ ret # None
    /\ ~ret.ok
    /\ ret.error = "division by zero"
    /\ ret.num_fixtures = Some(0)
    /\ gui.entries.E = RawNum(I(0))
    /\ gui.result_table = None
    /\ gui.canvases # <<>>


\* the calculation the results table shows, and its two candidates with the
\* adjusted illuminance reported for each
Shown == gui.result_table[1]

ShownCandidates ==
    {<<Shown.even_array[1], Shown.adjusted_E[1]>> : x \in {1} \cap {Len(Shown.even_array)}}
        \cup {<<Shown.odd_array[1], Shown.adjusted_E[2]>> :
                  x \in {1} \cap {Len(Shown.odd_array)}}

\* C22: for a required count N >= 1 and a target E >= 0, every candidate
\* shown has at least N fixtures, and the adjusted illuminance E * (A / N)
\* reported for it is not below E.
C22_AdjustedNotBelowTarget ==
    (gui.result_table # None /\ Shown.num_fixtures >= 1 /\ Ge(Shown.entries[9], I(0)))
        => \A c \in ShownCandidates :
               /\ c[1].fixtures >= Shown.num_fixtures
               /\ Ge(c[2], Shown.entries[9])

\* a candidate with more fixtures than required is shown for a positive
\* target, with an adjusted illuminance above the target
C22_Witness ==
    /\ gui.result_table # None
    /\ Shown.num_fixtures >= 1
    /\ Gt(Shown.entries[9], I(0))
    /\ \E c \in ShownCandidates :
           /\ c[1].fixtures > Shown.num_fixtures
           /\ Gt(c[2], Shown.entries[9])
           /\ c[2] = Mul(Shown.entries[9], Q(c[1].fixtures, Shown.num_fixtures))

---------------------------------------------------------------------------
(* Claims about ties in the array search                                   *)

\* the places, in the order of enumeration, of the valid arrays that tie
\* with the candidate c: the same parity and the same total
TiedWith(c) ==
    {i \in 1..Len(ret.valid_arrays) :
        /\ ret.valid_arrays[i].parity = c.parity
        /\ ret.valid_arrays[i].fixtures = c.fixtures}

\* the smaller of the two counts of an array
ShorterSide(array) == MinOf(array[1], array[2])

\* C23: a candidate returned is, among the valid arrays of its parity and
\* its total, the one the enumeration (rows ascending, then cols ascending)
\* reaches first, and none of them has a smaller min(alongLength,
\* acrossWidth).
C23_TieFirstEnumerated ==
    ArraysDone =>
        \A c \in ReturnedCandidates :
            LET first == CHOOSE i \in TiedWith(c) : \A j \in TiedWith(c) : i <= j
            IN  /\ TiedWith(c) # {}
                /\ ret.valid_arrays[first] = c
                /\ \A j \in TiedWith(c) :
                       ShorterSide(c.array) <= ShorterSide(ret.valid_arrays[j].array)

\* a candidate is returned with which a different valid array ties
C23_Witness ==
    /\ ArraysDone
    /\ \E c \in ReturnedCandidates :
           \E j \in TiedWith(c) :
               /\ ret.valid_arrays[j].array # c.array
               /\ ShorterSide(c.array) < ShorterSide(ret.valid_arrays[j].array)

---------------------------------------------------------------------------
(* Claims about the range of the utilization factor                        *)

UfFloatDone == pc = "done" /\ fn = "interpolate_uf" /\ "Uf1_lower" \in DOMAIN args

\* the stored values the result is computed from: those of the two columns
\* at the rows keyed lower_K and upper_K
StoredValues ==
    {args.Uf1_lower, args.Uf1_upper, args.Uf2_lower, args.Uf2_upper}

StoredMin == CHOOSE x \in StoredValues : \A y \in StoredValues : FLe(x, y)

StoredMax == CHOOSE x \in StoredValues : \A y \in StoredValues : FLe(y, x)

\* the distance of x to the next double above it
Ulp(x) == [s |-> 1, m |-> BigShl(<<1>>, MantissaBits - 1), e |-> x.e - (MantissaBits - 1)]

\* C24 as stated: the Uf returned lies between the minimum and the maximum of
\* the stored values of the two selected columns at the rows keyed lowerK
\* and upperK.
C24_WithinStoredRange ==
    UfFloatDone => FLe(StoredMin, ret.value) /\ FLe(ret.value, StoredMax)

\* C24: the Uf returned lies between the minimum and the maximum of the
\* stored values of the two selected columns at the rows keyed lowerK and
\* upperK, up to the rounding of the floating-point operations: it is not
\* below the minimum nor above the maximum by more than 4 units in the last
\* place of the maximum.
C24_WithinStoredRangeRounded ==
    UfFloatDone =>
        LET slack == FMul(FInt(4), Ulp(StoredMax))
        IN  /\ FLe(FSub(StoredMin, slack), ret.value)
            /\ FLe(ret.value, FAdd(StoredMax, slack))

\* the four stored values are not all the same and the result is strictly
\* inside their range
C24_Witness ==
    /\ UfFloatDone
    /\ args.lower_K # args.upper_K
    /\ StoredMin # StoredMax
    /\ FCmp(StoredMin, ret.value) < 0
    /\ FCmp(ret.value, StoredMax) < 0

============================================================================
